---- MODULE Spec2Model ----
(***************************************************************************)
(* Verification model of fvtt-shared-library: the enumeration factory      *)
(* (src/enums.js) and the package identity resolver (src/package_info.js). *)
(*                                                                         *)
(* JavaScript strings are sequences of one-character strings, so that      *)
(* toUpperCase, parseInt, String(), split and the regular expressions are  *)
(* modelled by what they do to the characters.  JavaScript values are      *)
(* tagged records (JsUndef, JsNum, JsStr, member objects).                 *)
(***************************************************************************)
EXTENDS Integers, Sequences, FiniteSets, TLC

VARIABLES enum, last, game, args

vars == <<enum, last, game, args>>

(***************************************************************************)
(* Bounds                                                                  *)
(***************************************************************************)
\* largest number of items in a collection handed to Enum, and of
\* properties an enumeration under test may accumulate
MaxMembers == 3

\* largest number of lines of a stack trace
MaxLines == 2

(***************************************************************************)
(* Characters and strings                                                  *)
(***************************************************************************)
LowerLetters == <<"a","b","c","d","e","f","g","h","i","j","k","l","m",
                  "n","o","p","q","r","s","t","u","v","w","x","y","z">>
UpperLetters == <<"A","B","C","D","E","F","G","H","I","J","K","L","M",
                  "N","O","P","Q","R","S","T","U","V","W","X","Y","Z">>
Digits == <<"0","1","2","3","4","5","6","7","8","9">>

IndexIn(c, seq) ==
  IF \E i \in DOMAIN seq : seq[i] = c
  THEN CHOOSE i \in DOMAIN seq : seq[i] = c
  ELSE 0

\* the upper-case letter of each lower-case letter, and the converse
UpperOf == [c \in {LowerLetters[i] : i \in DOMAIN LowerLetters} |->
              UpperLetters[IndexIn(c, LowerLetters)]]

LowerOf == [c \in {UpperLetters[i] : i \in DOMAIN UpperLetters} |->
              LowerLetters[IndexIn(c, UpperLetters)]]

\* String.prototype.toUpperCase, one character
UpperChar(c) == IF c \in DOMAIN UpperOf THEN UpperOf[c] ELSE c

\* String.prototype.toLowerCase, one character
LowerChar(c) == IF c \in DOMAIN LowerOf THEN LowerOf[c] ELSE c

toUpperCase(s) == [i \in DOMAIN s |-> UpperChar(s[i])]

toLowerCase(s) == [i \in DOMAIN s |-> LowerChar(s[i])]

DigitSet == {Digits[i] : i \in DOMAIN Digits}

IsDigit(c) == c \in DigitSet

DigitVal(c) == IndexIn(c, Digits) - 1

\* the decimal digits of a natural number
RECURSIVE NatToString(_)
NatToString(n) ==
  IF n < 10 THEN <<Digits[n + 1]>>
  ELSE NatToString(n \div 10) \o <<Digits[(n % 10) + 1]>>

\* String(n) for an integer n
IntToString(n) == IF n < 0 THEN <<"-">> \o NatToString(0 - n) ELSE NatToString(n)

\* value of the longest run of digits starting at position i of s, given
\* the value acc of the digits already read
RECURSIVE DigitsValue(_, _, _)
DigitsValue(s, i, acc) ==
  IF i <= Len(s) /\ IsDigit(s[i])
  THEN DigitsValue(s, i + 1, acc * 10 + DigitVal(s[i]))
  ELSE acc

\* parseInt(s): an optional sign and the longest prefix of digits; the
\* result is [nan |-> TRUE] when there is no digit to read
parseInt(s) ==
  LET neg   == Len(s) >= 1 /\ s[1] = "-"
      start == IF Len(s) >= 1 /\ s[1] \in {"-", "+"} THEN 2 ELSE 1
  IN IF start <= Len(s) /\ IsDigit(s[start])
     THEN [nan |-> FALSE,
           n   |-> IF neg THEN 0 - DigitsValue(s, start, 0) ELSE DigitsValue(s, start, 0)]
     ELSE [nan |-> TRUE, n |-> 0]

\* ToNumber(s) for a string: the whole string must be a decimal integer
\* (the empty string converts to 0)
StringToNumber(s) ==
  LET start == IF Len(s) >= 1 /\ s[1] \in {"-", "+"} THEN 2 ELSE 1
  IN IF Len(s) = 0 THEN [nan |-> FALSE, n |-> 0]
     ELSE IF start <= Len(s) /\ \A i \in start..Len(s) : IsDigit(s[i])
     THEN parseInt(s)
     ELSE [nan |-> TRUE, n |-> 0]

(***************************************************************************)
(* JavaScript values                                                       *)
(***************************************************************************)
JsUndef == [t |-> "undefined"]

JsNum(n) == [t |-> "number", n |-> n]

JsStr(s) == [t |-> "string", s |-> s]

\* an enumeration member: an instance of the value class of enumeration eid
JsMember(eid, name, val) == [t |-> "object", eid |-> eid, name |-> name, val |-> val]

(***************************************************************************)
(* Enumerations (src/enums.js)                                             *)
(*                                                                         *)
(* An enumeration object is a record:                                      *)
(*   eid        identity of the enumeration class (and of its value class) *)
(*   has_value  TRUE iff the reverse map exists                            *)
(*   frozen     Object.isFrozen(enum_cls)                                  *)
(*   props      the member properties enum_cls[NAME], a function           *)
(*   list       enum_cls.list                                              *)
(*   reverse    enum_cls.reverse, a function from values to members        *)
(***************************************************************************)

\* (m.value ?? 0) as the number the subtraction of the comparator sees
SortKey(m) ==
  CASE m.val.t = "undefined" -> [nan |-> FALSE, n |-> 0]
    [] m.val.t = "number"    -> [nan |-> FALSE, n |-> m.val.n]
    [] m.val.t = "string"    -> StringToNumber(m.val.s)

\* the comparator of sort_list_by_value; a NaN result counts as 0
SortCompare(a, b) ==
  IF SortKey(a).nan \/ SortKey(b).nan THEN 0 ELSE SortKey(a).n - SortKey(b).n

\* the comparator is a consistent comparator on the elements of list
ConsistentCompare(list) ==
  \A i, j, k \in DOMAIN list :
     (SortCompare(list[i], list[j]) = 0 /\ SortCompare(list[j], list[k]) = 0)
        => SortCompare(list[i], list[k]) = 0

InsertStable(sorted, m) ==
  LET later == {i \in DOMAIN sorted : SortCompare(sorted[i], m) > 0}
      pos   == IF later = {} THEN Len(sorted) + 1
               ELSE CHOOSE i \in later : \A j \in later : i <= j
  IN SubSeq(sorted, 1, pos - 1) \o <<m>> \o SubSeq(sorted, pos, Len(sorted))

RECURSIVE StableSort(_)
StableSort(list) ==
  IF list = <<>> THEN <<>>
  ELSE InsertStable(StableSort(SubSeq(list, 1, Len(list) - 1)), list[Len(list)])

\* mutant: the list is left in insertion order
sort_list_by_value_NoSort(list) == {list}

\* Array.prototype.sort with the comparator above: a stable sort when the
\* comparator is consistent, an implementation-defined order otherwise
sort_list_by_value(list) ==
  IF ConsistentCompare(list)
  THEN {StableSort(list)}
  ELSE {[i \in DOMAIN list |-> list[p[i]]] : p \in Permutations(DOMAIN list)}

\* the enumeration object before any member is added
EmptyEnum(eid, has_value) ==
  [eid |-> eid, has_value |-> has_value, frozen |-> FALSE,
   props |-> <<>>, list |-> <<>>, reverse |-> <<>>]

\* mutant: an enumeration is never seen as frozen
IsFrozen_Never(e) == FALSE

\* Object.isFrozen(enum_cls)
IsFrozen(e) == e.frozen

\* name in enum_cls
NameTaken(e, name) == name \in DOMAIN e.props

\* mutant: the reverse map is not asked before it is written
ValueTaken_Never(e, value) == FALSE

\* enum_cls.reverse.has(value)
ValueTaken(e, value) == value \in DOMAIN e.reverse

\* EnumValue(enum_cls, name, value, sort): err is the error thrown ("none"
\* when the call returns) and enums the set of states the enumeration may
\* be left in
EnumValue(e, name, value, sort) ==
  LET obj   == JsMember(e.eid, name, value)
      named == [e EXCEPT !.props = name :> obj @@ e.props]
      revd  == [named EXCEPT !.reverse = value :> obj @@ named.reverse]
      keyed == IF value # JsUndef THEN revd ELSE named
      added == [keyed EXCEPT !.list = Append(keyed.list, obj)]
  IN IF IsFrozen(e)
     THEN [err |-> "frozen", enums |-> {e}]
     ELSE IF name # toUpperCase(name)
     THEN [err |-> "uppercase", enums |-> {e}]
     ELSE IF NameTaken(e, name)
     THEN [err |-> "dupname", enums |-> {e}]
     ELSE IF value # JsUndef /\ ~e.has_value
     THEN [err |-> "typeerror", enums |-> {named}]
     ELSE IF value # JsUndef /\ ValueTaken(e, value)
     THEN [err |-> "dupvalue", enums |-> {named}]
     ELSE IF sort
     THEN [err |-> "none",
           enums |-> {[added EXCEPT !.list = l] : l \in sort_list_by_value(added.list)}]
     ELSE [err |-> "none", enums |-> {added}]

\* the items of a collection as (key, value) pairs in iteration order: the
\* elements of an array are names without a value
CollectionItems(collection) ==
  IF collection.kind = "array"
  THEN [i \in DOMAIN collection.items |-> [k |-> collection.items[i], v |-> JsUndef]]
  ELSE collection.items

\* the construction loop of Enum: EnumValue with sort deferred for the items
\* from position i on; stops at the first error
RECURSIVE EnumFill(_, _, _)
EnumFill(e, items, i) ==
  IF i > Len(items) THEN [err |-> "none", e |-> e]
  ELSE LET r == EnumValue(e, items[i].k, items[i].v, FALSE)
       IN IF r.err # "none" THEN [err |-> r.err, e |-> e]
          ELSE EnumFill(CHOOSE x \in r.enums : TRUE, items, i + 1)

\* Enum(name, collection, freeze): err is the error thrown ("none" when an
\* enumeration is returned) and enums the enumerations that may be returned
Enum(eid, collection, freeze) ==
  LET has_value == collection.kind # "array"
      filled    == EnumFill(EmptyEnum(eid, has_value), CollectionItems(collection), 1)
  IN IF filled.err # "none"
     THEN [err |-> filled.err, enums |-> {}]
     ELSE [err |-> "none",
           enums |-> {[filled.e EXCEPT !.list = l, !.frozen = freeze] :
                         l \in sort_list_by_value(filled.e.list)}]

\* mutant: the instance test is made against the wrong value class
InstanceOfValueCls_WrongCls(e, value) == value.t = "object" /\ value.eid # e.eid

\* value instanceof value_cls of enumeration e
InstanceOfValueCls(e, value) == value.t = "object" /\ value.eid = e.eid

\* mutant: the name is looked up as given, without toUpperCase
NameLookup_NoUpper(e, value) ==
  IF value.s \in DOMAIN e.props THEN e.props[value.s] ELSE JsUndef

\* this[value.toUpperCase()] for a string: the member property of that
\* name, or undefined
NameLookup(e, value) ==
  IF toUpperCase(value.s) \in DOMAIN e.props
  THEN e.props[toUpperCase(value.s)]
  ELSE JsUndef

\* mutant: the reverse map is asked for the raw value only
ReverseLookup_NoParse(e, value) ==
  IF value \in DOMAIN e.reverse THEN e.reverse[value] ELSE JsUndef

\* the reverse map lookup of get: this.reverse.get(value) and, for a string
\* that was not found, this.reverse.get(parseInt(value))
ReverseLookup(e, value) ==
  LET direct    == IF value \in DOMAIN e.reverse THEN e.reverse[value] ELSE JsUndef
      value_int == parseInt(value.s)
  IN IF direct = JsUndef /\ value.t = "string" /\ ~value_int.nan
        /\ JsNum(value_int.n) \in DOMAIN e.reverse
     THEN e.reverse[JsNum(value_int.n)]
     ELSE direct

\* enum_cls.get(value, dflt): status "return" with the value returned, or
\* status "throw" with the error
get(e, value, dflt) ==
  IF InstanceOfValueCls(e, value)
  THEN [status |-> "return", value |-> value, err |-> "none"]
  ELSE IF value.t = "string" /\ NameLookup(e, value) # JsUndef
  THEN [status |-> "return", value |-> NameLookup(e, value), err |-> "none"]
  ELSE IF ~e.has_value
  THEN [status |-> "throw", value |-> JsUndef, err |-> "typeerror"]
  ELSE IF ReverseLookup(e, value) # JsUndef
  THEN [status |-> "return", value |-> ReverseLookup(e, value), err |-> "none"]
  ELSE IF dflt = JsUndef
  THEN [status |-> "throw", value |-> JsUndef, err |-> "notfound"]
  ELSE [status |-> "return", value |-> dflt, err |-> "none"]

\* enum_cls.has(value)
has(e, value) == InstanceOfValueCls(e, value)

(***************************************************************************)
(* The enumerations of the program and the inputs of the operations        *)
(***************************************************************************)
sUNKNOWN == <<"U","N","K","N","O","W","N">>
sMODULE == <<"M","O","D","U","L","E">>
sSYSTEM == <<"S","Y","S","T","E","M">>
sWORLD == <<"W","O","R","L","D">>

\* identities of the enumeration classes
ForeignEid == 0
TestEid == 1
PackageTypesEid == 2

\* PACKAGE_TYPES = Enum('PackageType', ["UNKNOWN", "MODULE", "SYSTEM", "WORLD"])
PACKAGE_TYPES ==
  CHOOSE e \in Enum(PackageTypesEid,
                    [kind |-> "array", items |-> <<sUNKNOWN, sMODULE, sSYSTEM, sWORLD>>],
                    TRUE).enums : TRUE

\* member names offered to Enum and EnumValue; <<"a">> is not upper-case
Names == {<<"A">>, <<"B">>, <<"C">>, <<"a">>}

\* member values offered to Enum and EnumValue: no value, an integer, a
\* string that is a member name in lower case, a string that is a number
Values == {JsUndef, JsNum(1), JsStr(<<"b">>), JsStr(<<"1">>)}

\* sequences over S of length at most n
SeqsUpTo(S, n) == UNION {[1..k -> S] : k \in 0..n}

\* the collections handed to Enum: arrays of names, and objects, whose
\* keys are distinct
Collections ==
  {[kind |-> "array", items |-> a] : a \in SeqsUpTo(Names, MaxMembers)}
  \cup
  {[kind |-> "object", items |-> o] :
      o \in {x \in SeqsUpTo([k : Names, v : Values], MaxMembers) :
                \A i, j \in DOMAIN x : x[i].k = x[j].k => i = j}}

\* a member of some other enumeration
ForeignMember == JsMember(ForeignEid, <<"A">>, JsNum(1))

Members(e) == {e.props[n] : n \in DOMAIN e.props}

\* the keys handed to get: members, names in either case, values and
\* their string forms, and keys no enumeration of the model has
GetKeys(e) ==
  Members(e) \cup {ForeignMember}
  \cup {JsStr(n) : n \in DOMAIN e.props}
  \cup {JsStr(toLowerCase(n)) : n \in DOMAIN e.props}
  \cup (DOMAIN e.reverse)
  \cup {JsStr(IntToString(v.n)) : v \in {x \in DOMAIN e.reverse : x.t = "number"}}
  \cup {JsStr(<<"z","z">>), JsNum(7), JsStr(<<"7">>)}

Defaults == {JsUndef, JsStr(<<"d">>)}

(***************************************************************************)
(* Package identity resolver (src/package_info.js)                         *)
(*                                                                         *)
(* The file holds two snapshots of the resolver: the current one (lines    *)
(* 1-479) and an older one (lines 480-909).  Operators that differ take    *)
(* the snapshot, "new" or "old", as a parameter.                           *)
(*                                                                         *)
(* The host is a record: has_modules (game?.modules is there), modules (a  *)
(* function from the ids in the registry to their active flag), system and *)
(* world (game.data.system.id, game.data.world.id; the empty string when   *)
(* the host does not have them yet).                                       *)
(***************************************************************************)
Snapshots == {"new", "old"}

\* PACKAGE_ID of consts.js, the id of the library itself
PACKAGE_ID == <<"l","w">>

\* KEY_SEPARATOR / MAIN_KEY_SEPARATOR
KEY_SEPARATOR == ":"

\* KEY_SEPARATORS of the older snapshot
KEY_SEPARATORS == <<":", "~">>

\* UNKNOWN_ID, a string no identifier or key of the model contains
UNKNOWN_ID == <<"<", "unknown", ">">>

\* the characters PACKAGE_ID_REGEX accepts
IsIdChar(c) ==
  \/ c \in DOMAIN UpperOf
  \/ c \in DOMAIN LowerOf
  \/ IsDigit(c)
  \/ c \in {"_", "-"}

\* PACKAGE_ID_REGEX.test(id): /^[a-z0-9_-]+$/i
PACKAGE_ID_REGEX(id) == Len(id) >= 1 /\ \A i \in DOMAIN id : IsIdChar(id[i])

\* the root directories STACK_TRACE_REGEX looks for
RootDirs == {<<"w","o","r","l","d","s">>, <<"s","y","s","t","e","m","s">>, <<"m","o","d","u","l","e","s">>}

\* the text of line from position i has word w at its start, in any letter
\* case (the regular expression has the i flag)
WordAt(line, i, w) ==
  /\ i + Len(w) - 1 <= Len(line)
  /\ toLowerCase(SubSeq(line, i, i + Len(w) - 1)) = w

\* STACK_TRACE_REGEX matches with the "/" before the root directory at
\* position i of line: "/", a root directory, "/", then at least one
\* character that is followed by a "/"
MatchesAt(line, i) ==
  /\ line[i] = "/"
  /\ \E w \in RootDirs :
        /\ WordAt(line, i + 1, w)
        /\ i + Len(w) + 1 <= Len(line)
        /\ line[i + Len(w) + 1] = "/"
        /\ \E j \in (i + Len(w) + 2)..(Len(line) - 1) : line[j + 1] = "/"

\* the match of STACK_TRACE_REGEX in one line: the lazy prefix makes it the
\* leftmost one, the lazy (.+?) makes the name end before the first "/"
\* that follows at least one character; type is match[1], name is match[2]
MatchLine(line) ==
  IF \E i \in DOMAIN line : MatchesAt(line, i)
  THEN LET i == CHOOSE x \in DOMAIN line :
                  MatchesAt(line, x) /\ \A y \in DOMAIN line : MatchesAt(line, y) => x <= y
           w == CHOOSE x \in RootDirs : WordAt(line, i + 1, x)
           p == i + Len(w) + 2
           j == CHOOSE x \in p..(Len(line) - 1) :
                  line[x + 1] = "/" /\ \A y \in p..(Len(line) - 1) : line[y + 1] = "/" => x <= y
       IN [found |-> TRUE, type |-> SubSeq(line, i + 1, i + Len(w)),
           name |-> SubSeq(line, p, j), text |-> line]
  ELSE [found |-> FALSE, type |-> <<>>, name |-> <<>>, text |-> line]

idA == <<"a">>
idB == <<"b">>
idAB == <<"a", "b">>

\* lines of stack traces: paths below the three root directories, a path
\* whose identifier is not followed by "/", a root directory in another
\* letter case, and an identifier with a character ids may not have
LineModuleA == <<"/","m","o","d","u","l","e","s","/","a","/","x">>
LineModuleA2 == <<"/","m","o","d","u","l","e","s","/","a","/","y">>
LineSystemA == <<"/","s","y","s","t","e","m","s","/","a","/","x">>
LineWorldB == <<"/","w","o","r","l","d","s","/","b","/","x">>
LineModuleAB == <<"h","/","m","o","d","u","l","e","s","/","a","b","/","x">>
LineNoSlash == <<"/","m","o","d","u","l","e","s","/","a">>
LineUpperCase == <<"/","M","o","d","u","l","e","s","/","a","/","x">>
LineBadId == <<"/","m","o","d","u","l","e","s","/","a",":","b","/","x">>

Lines == {LineModuleA, LineModuleA2, LineSystemA, LineWorldB, LineModuleAB,
          LineNoSlash, LineUpperCase, LineBadId}

\* the match of every line of the model, worked out once
LineMatches == [line \in Lines |-> MatchLine(line)]

\* stack_trace.matchAll(STACK_TRACE_REGEX) for one line
MatchOf(line) == IF line \in Lines THEN LineMatches[line] ELSE MatchLine(line)

\* String.prototype.includes: sub occurs in s
StringIncludes(s, sub) ==
  \E k \in 1..(Len(s) - Len(sub) + 1) : SubSeq(s, k, k + Len(sub) - 1) = sub

\* ignore_ids is truthy: every array and set is, a string when not empty
Truthy(ignore_ids) ==
  CASE ignore_ids.kind = "undefined" -> FALSE
    [] ignore_ids.kind = "string"    -> ignore_ids.s # <<>>
    [] ignore_ids.kind = "array"     -> TRUE
    [] ignore_ids.kind = "set"       -> TRUE

\* ignore_ids?.includes?.(name): a substring test on a string, an element
\* test on an array, and undefined on a Set, which has no includes method
Includes(ignore_ids, name) ==
  CASE ignore_ids.kind = "string" -> StringIncludes(ignore_ids.s, name)
    [] ignore_ids.kind = "array"  -> name \in ignore_ids.items
    [] OTHER                      -> FALSE

\* ignore_ids && (name === ignore_ids || ignore_ids?.includes?.(name))
Ignored(ignore_ids, name) ==
  /\ Truthy(ignore_ids)
  /\ \/ (ignore_ids.kind = "string" /\ ignore_ids.s = name)
     \/ Includes(ignore_ids, name)

\* the members of PACKAGE_TYPES; in the resolver the variable enum holds the
\* PACKAGE_TYPES object of the module, which no action of it changes
TYPE_UNKNOWN == enum.props[sUNKNOWN]
TYPE_MODULE_AsSystem == enum.props[sSYSTEM]
TYPE_MODULE == enum.props[sMODULE]
TYPE_SYSTEM == enum.props[sSYSTEM]
TYPE_WORLD == enum.props[sWORLD]

\* the scan loop without the tests against the host registries
MatchOutcome_NoRegistry(m, ignore_ids, g) ==
  IF m.type = <<"w","o","r","l","d","s">>
  THEN [kind |-> "call", id |-> m.name, type |-> TYPE_WORLD, text |-> m.text]
  ELSE IF m.type = <<"s","y","s","t","e","m","s">>
  THEN [kind |-> "call", id |-> m.name, type |-> TYPE_SYSTEM, text |-> m.text]
  ELSE IF m.type = <<"m","o","d","u","l","e","s">>
  THEN IF Ignored(ignore_ids, m.name)
       THEN [kind |-> "skip"]
       ELSE [kind |-> "call", id |-> m.name, type |-> TYPE_MODULE, text |-> m.text]
  ELSE [kind |-> "throw"]

\* the body of the scan loop for one match: "skip" (continue), "call"
\* (matchFn is called with id, type and the matched text) or "throw"
MatchOutcome(m, ignore_ids, g) ==
  IF m.type = <<"w","o","r","l","d","s">>
  THEN IF g.world # <<>> /\ m.name # g.world
       THEN [kind |-> "skip"]
       ELSE [kind |-> "call", id |-> m.name, type |-> TYPE_WORLD, text |-> m.text]
  ELSE IF m.type = <<"s","y","s","t","e","m","s">>
  THEN IF g.system # <<>> /\ m.name # g.system
       THEN [kind |-> "skip"]
       ELSE [kind |-> "call", id |-> m.name, type |-> TYPE_SYSTEM, text |-> m.text]
  ELSE IF m.type = <<"m","o","d","u","l","e","s">>
  THEN IF g.has_modules /\ m.name \notin DOMAIN g.modules
       THEN [kind |-> "skip"]
       ELSE IF Ignored(ignore_ids, m.name)
       THEN [kind |-> "skip"]
       ELSE [kind |-> "call", id |-> m.name, type |-> TYPE_MODULE, text |-> m.text]
  ELSE [kind |-> "throw"]

IsFound(m) == m.found

\* the outcomes of the scan loop of foreach_package_in_stack_trace, one per
\* line of the trace that has a match, in trace order
ScanOutcomes(stack_trace, ignore_ids, g) ==
  LET matched == SelectSeq([i \in DOMAIN stack_trace |-> MatchOf(stack_trace[i])],
                           IsFound)
  IN [i \in DOMAIN matched |-> MatchOutcome(matched[i], ignore_ids, g)]

\* String.prototype.split(sep) for a one-character separator: the pieces
\* of s between the occurrences of sep
RECURSIVE Split(_, _)
Split(s, sep) ==
  IF \E i \in DOMAIN s : s[i] = sep
  THEN LET i == CHOOSE x \in DOMAIN s : s[x] = sep /\ \A y \in DOMAIN s : s[y] = sep => x <= y
       IN <<SubSeq(s, 1, i - 1)>> \o Split(SubSeq(s, i + 1, Len(s)), sep)
  ELSE <<s>>

\* PackageInfo.is_valid_id(id) for a string
is_valid_id(id) == id # <<>> /\ PACKAGE_ID_REGEX(id)

\* detect_type with the current system asked before the module registry
detect_type_SystemFirst(id, g) ==
  IF ~g.has_modules
  THEN IF id = PACKAGE_ID THEN TYPE_MODULE ELSE TYPE_UNKNOWN
  ELSE IF id = g.system
  THEN TYPE_SYSTEM
  ELSE IF id \in DOMAIN g.modules /\ g.modules[id]
  THEN TYPE_MODULE
  ELSE IF id = g.world
  THEN TYPE_WORLD
  ELSE TYPE_UNKNOWN

\* detect_type: the type of a package id according to the host
detect_type(id, g) ==
  IF ~g.has_modules
  THEN IF id = PACKAGE_ID THEN TYPE_MODULE ELSE TYPE_UNKNOWN
  ELSE IF id \in DOMAIN g.modules /\ g.modules[id]
  THEN TYPE_MODULE
  ELSE IF id = g.system
  THEN TYPE_SYSTEM
  ELSE IF id = g.world
  THEN TYPE_WORLD
  ELSE TYPE_UNKNOWN

\* the outcomes of PackageInfo.set: status "ok" with the id, type and
\* frozen flag of the object, "throw" with the error, or "detect" when the
\* call went on to detect_id
PkgObject(id, type, frozen) ==
  [status |-> "ok", id |-> id, type |-> type, frozen |-> frozen, err |-> "none"]

PkgThrow(err) ==
  [status |-> "throw", id |-> <<>>, type |-> JsUndef, frozen |-> FALSE, err |-> err]

PkgDetect ==
  [status |-> "detect", id |-> <<>>, type |-> JsUndef, frozen |-> FALSE, err |-> "none"]

\* set(id, type) from "Validate ID" on; type is a member of PACKAGE_TYPES,
\* JsUndef (null) or another value
set_validated(id, type, g) ==
  IF ~is_valid_id(id) THEN PkgThrow("invalid_id")
  ELSE IF type # JsUndef /\ ~has(enum, type) THEN PkgThrow("invalid_type")
  ELSE PkgObject(id, IF type = JsUndef THEN detect_type(id, g) ELSE type, TRUE)

\* parse_key(key) of the current snapshot: [id, type], where type is what
\* PACKAGE_TYPES.get returns; the call of get may throw
ParsedKey(split, found) ==
  IF found.status = "throw"
  THEN [status |-> "throw", id |-> <<>>, type |-> JsUndef]
  ELSE [status |-> "ok", id |-> split[2], type |-> found.value]

ParseSplit(split) ==
  IF Len(split) # 2
  THEN [status |-> "ok", id |-> <<>>, type |-> JsUndef]
  ELSE ParsedKey(split, get(enum, JsStr(split[1]), JsUndef))

parse_key(key) == ParseSplit(Split(key, KEY_SEPARATOR))

\* the split of from_key in the older snapshot: the first separator of
\* KEY_SEPARATORS that gives two pieces, else the split by the last one
FirstOfLength2(first, key) ==
  IF Len(first) = 2 THEN first ELSE Split(key, KEY_SEPARATORS[2])

OldSplit(key) == FirstOfLength2(Split(key, KEY_SEPARATORS[1]), key)

\* static properties of the enumeration class that are not members
OtherClassProps == {<<"l","i","s","t">>, <<"g","e","t">>, <<"h","a","s">>, <<"n","a","m","e">>}

\* PACKAGE_TYPES[name] of the older snapshot: the property of exactly that
\* name, a member or another value, undefined when there is none
OldTypeOf(name) ==
  IF name \in DOMAIN enum.props THEN enum.props[name]
  ELSE IF name \in OtherClassProps THEN [t |-> "other"]
  ELSE JsUndef

\* PackageInfo.set(id, type) of either snapshot for a string id; from_key
\* is called with fail = false when no type is given and hands the pieces
\* of a key to set again. pieces is what from_key got from the key: status
\* "throw", "none" (from_key returns false) or "ok" with an id and a type
RECURSIVE PackageInfo_set(_, _, _, _)
FromKey(snapshot, id, pieces, g) ==
  IF pieces.status = "throw" THEN PkgThrow("typeerror")
  ELSE IF pieces.status = "ok" THEN PackageInfo_set(snapshot, pieces.id, pieces.type, g)
  ELSE set_validated(id, pieces.type, g)

\* from_key of the current snapshot: false when parse_key gives no id or
\* no type
NewPieces(parsed) ==
  IF parsed.status = "throw" THEN [status |-> "throw", id |-> <<>>, type |-> JsUndef]
  ELSE IF parsed.id = <<>> \/ parsed.type = JsUndef
  THEN [status |-> "none", id |-> <<>>, type |-> JsUndef]
  ELSE parsed

\* from_key of the older snapshot: false when the key has not two pieces
OldPieces(split) ==
  IF Len(split) # 2
  THEN [status |-> "none", id |-> <<>>, type |-> JsUndef]
  ELSE [status |-> "ok", id |-> split[2], type |-> OldTypeOf(split[1])]

PackageInfo_set(snapshot, id, type, g) ==
  IF id = <<>> THEN PkgDetect
  ELSE IF id = UNKNOWN_ID THEN PkgObject(UNKNOWN_ID, TYPE_UNKNOWN, FALSE)
  ELSE FromKey(snapshot, id,
               IF type # JsUndef THEN [status |-> "none", id |-> <<>>, type |-> type]
               ELSE IF snapshot = "new" THEN NewPieces(parse_key(id))
               ELSE OldPieces(OldSplit(id)),
               g)

\* `${type.lower}${KEY_SEPARATOR}${id}`
KeyOf(type, id) == toLowerCase(type.name) \o <<KEY_SEPARATOR>> \o id

\* a predicate that is never consulted
Included_Always(include_fn, id, type, text) == TRUE

\* include_fn !== undefined && !include_fn(id, type, match) does not hold;
\* a predicate is the set of matched texts it rejects (the text fixes id
\* and type), and kind "undefined" stands for no predicate
Included(include_fn, id, type, text) ==
  include_fn.kind = "undefined" \/ text \notin include_fn.rejects

\* the keys collect_all has in its set after the outcomes up to position
\* i, in insertion order
RECURSIVE CollectKeys(_, _, _)
CollectKeys(outcomes, include_fn, i) ==
  IF i = 0 THEN <<>>
  ELSE LET before == CollectKeys(outcomes, include_fn, i - 1)
           o      == outcomes[i]
           key    == KeyOf(o.type, o.id)
       IN IF o.kind # "call" THEN before
          ELSE IF \E k \in DOMAIN before : before[k] = key THEN before
          ELSE IF ~Included(include_fn, o.id, o.type, o.text) THEN before
          ELSE Append(before, key)

IsCall(o) == o.kind = "call"

\* the calls of matchFn made by a scan that is never told to stop: the
\* "call" outcomes before the first "throw"
ScanCalls(outcomes) ==
  SelectSeq([i \in {x \in DOMAIN outcomes :
                      \A j \in 1..x : outcomes[j].kind # "throw"} |-> outcomes[i]],
            IsCall)

\* the matches for which collect_all calls include_fn, among the outcomes
\* up to position i: those reached by the scan whose key is not in the set
\* yet, when there is a predicate
RECURSIVE IncludeAsked(_, _, _)
IncludeAsked(outcomes, include_fn, i) ==
  IF i = 0 THEN <<>>
  ELSE IF \/ include_fn.kind = "undefined"
          \/ \E j \in 1..i : outcomes[j].kind = "throw"
          \/ outcomes[i].kind # "call"
          \/ \E k \in DOMAIN CollectKeys(outcomes, include_fn, i - 1) :
                CollectKeys(outcomes, include_fn, i - 1)[k]
                   = KeyOf(outcomes[i].type, outcomes[i].id)
  THEN IncludeAsked(outcomes, include_fn, i - 1)
  ELSE Append(IncludeAsked(outcomes, include_fn, i - 1), outcomes[i])

\* the end of collect_all: the list of the objects built from the keys,
\* or the error of the first construction that throws
Constructed(modules, calls) ==
  IF \E k \in DOMAIN modules : modules[k].status # "ok"
  THEN [status |-> "throw", modules |-> <<>>, calls |-> calls,
        err |-> modules[CHOOSE k \in DOMAIN modules :
                          /\ modules[k].status # "ok"
                          /\ \A j \in 1..(k - 1) : modules[j].status = "ok"].err]
  ELSE [status |-> "return", modules |-> modules, err |-> "none", calls |-> calls]

\* collect_all after the scan loop has had the outcomes
Collected(snapshot, outcomes, include_fn, g) ==
  [asked |-> IncludeAsked(outcomes, include_fn, Len(outcomes))] @@
  IF \E i \in DOMAIN outcomes : outcomes[i].kind = "throw"
  THEN [status |-> "throw", modules |-> <<>>, err |-> "invalid_script_type",
        calls |-> ScanCalls(outcomes)]
  ELSE Constructed([k \in DOMAIN CollectKeys(outcomes, include_fn, Len(outcomes)) |->
                      PackageInfo_set(snapshot,
                                      CollectKeys(outcomes, include_fn, Len(outcomes))[k],
                                      JsUndef, g)],
                   ScanCalls(outcomes))

\* PackageInfo.collect_all(stack_trace, include_fn, ignore_ids) for a
\* string stack_trace: the list of objects returned, or the error thrown
\* by the scan or by the construction of an object; calls are the calls of
\* the scan to its matchFn
collect_all(snapshot, stack_trace, include_fn, ignore_ids, g) ==
  IF stack_trace = <<>>
  THEN IF snapshot = "new"
       THEN [status |-> "return", modules |-> <<>>, err |-> "none", calls |-> <<>>,
             asked |-> <<>>]
       ELSE [status |-> "throw", modules |-> <<>>, err |-> "no_stack_trace",
             calls |-> <<>>, asked |-> <<>>]
  ELSE Collected(snapshot, ScanOutcomes(stack_trace, ignore_ids, g), include_fn, g)

\* the positions of the outcomes at which a scan that stops at the first
\* call of matchFn ends: the first outcome that is a call or a throw
StopsAt(outcomes) ==
  {i \in DOMAIN outcomes :
     /\ outcomes[i].kind # "skip"
     /\ \A j \in 1..(i - 1) : outcomes[j].kind = "skip"}

\* detect_id once the scan has its outcomes: set_unknown, then set(id, type)
\* at the first call of matchFn, which stops the scan; examined counts the
\* matches the loop has looked at
DetectFirst(snapshot, outcomes, stops, g) ==
  IF stops = {}
  THEN [examined |-> Len(outcomes)] @@ PkgObject(UNKNOWN_ID, TYPE_UNKNOWN, FALSE)
  ELSE [examined |-> CHOOSE i \in stops : TRUE] @@
       IF outcomes[CHOOSE i \in stops : TRUE].kind = "throw"
       THEN PkgThrow("invalid_script_type")
       ELSE PackageInfo_set(snapshot, outcomes[CHOOSE i \in stops : TRUE].id,
                            outcomes[CHOOSE i \in stops : TRUE].type, g)

\* PackageInfo.detect_id(stack_trace), also reached by set() without an id;
\* ignore_ids is the current value of IGNORE_PACKAGE_IDS
detect_id(snapshot, stack_trace, ignore_ids, g) ==
  IF stack_trace = <<>>
  THEN [examined |-> 0] @@
       IF snapshot = "new"
       THEN PkgObject(UNKNOWN_ID, TYPE_UNKNOWN, FALSE)
       ELSE PkgThrow("no_stack_trace")
  ELSE DetectFirst(snapshot, ScanOutcomes(stack_trace, ignore_ids, g),
                   StopsAt(ScanOutcomes(stack_trace, ignore_ids, g)), g)

(***************************************************************************)
(* State machine of the enumeration under test: construction and extension *)
(***************************************************************************)
\* the host before the game object exists
NoGame == [has_modules |-> FALSE, modules |-> <<>>, system |-> <<>>, world |-> <<>>]

\* no call of the resolver is under way
NoArgs == [stack_trace |-> <<>>, include_fn |-> [kind |-> "undefined"],
           ignore_ids |-> [kind |-> "undefined"]]

Init ==
  /\ enum = PACKAGE_TYPES
  /\ last = [op |-> "init", err |-> "none"]
  /\ game = NoGame
  /\ args = NoArgs

\* Enum(name, collection, freeze): the enumeration under test is created,
\* in one attempt, in place of the program's own enumeration
EnumNew ==
  /\ enum.eid = PackageTypesEid
  /\ last.op # "Enum"
  /\ \E collection \in Collections, freeze \in BOOLEAN :
       LET r == Enum(TestEid, collection, freeze)
       IN /\ last' = [op |-> "Enum", collection |-> collection, freeze |-> freeze,
                      err |-> r.err]
          /\ IF r.err = "none" THEN enum' \in r.enums ELSE enum' = enum
          /\ UNCHANGED <<game, args>>

\* EnumValue(enum, name, value, sort) on the enumeration under test
EnumValueCall ==
  /\ enum.frozen \/ Cardinality(DOMAIN enum.props) < MaxMembers
  /\ \E name \in Names, value \in Values, sort \in BOOLEAN :
       LET r == EnumValue(enum, name, value, sort)
       IN /\ last' = [op |-> "EnumValue", name |-> name, value |-> value,
                      sort |-> sort, err |-> r.err]
          /\ enum' \in r.enums
          /\ UNCHANGED <<game, args>>

Next == EnumNew \/ EnumValueCall

Spec == Init /\ [][Next]_vars

(***************************************************************************)
(* Lookup: get applied to the enumerations the factory returns             *)
(***************************************************************************)
EnumsBuilt ==
  {PACKAGE_TYPES} \cup UNION {Enum(TestEid, c, TRUE).enums : c \in Collections}

InitGet ==
  /\ enum \in EnumsBuilt
  /\ last = [op |-> "init", err |-> "none"]
  /\ game = NoGame
  /\ args = NoArgs

\* enum.get(key, dflt) on the enumeration under test
EnumGet ==
  \E key \in GetKeys(enum), dflt \in Defaults :
    LET r == get(enum, key, dflt)
    IN /\ last' = [op |-> "get", key |-> key, dflt |-> dflt,
                   err |-> r.err, status |-> r.status, ret |-> r.value]
       /\ UNCHANGED <<enum, game, args>>

NextGet == EnumGet

SpecGet == InitGet /\ [][NextGet]_vars

(***************************************************************************)
(* The resolver applied to stack traces, hosts and arguments               *)
(***************************************************************************)
\* stack traces: the lines of the text in order
Traces == SeqsUpTo(Lines, MaxLines)

\* the hosts: no game object yet; ids known but no module registry yet;
\* registries with module a active and ab inactive; a registry of another
\* module only
Hosts ==
  {NoGame,
   [has_modules |-> FALSE, modules |-> <<>>, system |-> idA, world |-> idB],
   [has_modules |-> TRUE, modules |-> (idA :> TRUE) @@ (idAB :> FALSE),
    system |-> idA, world |-> idB],
   [has_modules |-> TRUE, modules |-> (idB :> TRUE), system |-> idA, world |-> idA]}

\* values of ignore_ids: none, strings, an array, a Set
IgnoreIds ==
  {[kind |-> "undefined"],
   [kind |-> "string", s |-> idA],
   [kind |-> "string", s |-> idAB],
   [kind |-> "array", items |-> {idA}],
   [kind |-> "set", items |-> {idA}]}

\* values of include_fn: none, and a predicate that rejects one line
IncludeFns ==
  {[kind |-> "undefined"],
   [kind |-> "function", rejects |-> {LineModuleA}]}

InitPkg ==
  /\ enum = PACKAGE_TYPES
  /\ last = [op |-> "init", err |-> "none"]
  /\ game \in Hosts
  /\ args \in [stack_trace : Traces, include_fn : IncludeFns, ignore_ids : IgnoreIds]

\* PackageInfo.collect_all(stack_trace, include_fn, ignore_ids) in either
\* snapshot
CollectAll ==
  \E snapshot \in Snapshots :
    /\ last' = [op |-> "collect_all", snapshot |-> snapshot] @@
                  collect_all(snapshot, args.stack_trace, args.include_fn,
                              args.ignore_ids, game)
    /\ UNCHANGED <<enum, game, args>>

\* new PackageInfo() or detect_id(stack_trace) in either snapshot, with the
\* trace of the call and IGNORE_PACKAGE_IDS as the module holds it
DetectId ==
  \E snapshot \in Snapshots :
    /\ last' = [op |-> "detect_id", snapshot |-> snapshot] @@
                  detect_id(snapshot, args.stack_trace, args.ignore_ids, game)
    /\ UNCHANGED <<enum, game, args>>

NextPkg == CollectAll \/ DetectId

SpecPkg == InitPkg /\ [][NextPkg]_vars

(***************************************************************************)
(* Construction of PackageInfo objects, and later calls of set on them     *)
(***************************************************************************)
\* the traces a constructor may be called from
NewTraces == SeqsUpTo(Lines, 1)

\* the ids handed to the constructor: none, the sentinel, identifiers, the
\* id of the library, strings with a character identifiers may not have,
\* and composite keys of every type, in lower and upper case and with the
\* second separator of the older snapshot
NewIds ==
  {<<>>, UNKNOWN_ID, idA, idB, idAB, PACKAGE_ID, <<"a", "!">>, <<"a", ":", "b">>,
   <<"M","O","D","U","L","E",":","a">>, <<"m","o","d","u","l","e","~","a">>}
  \cup {KeyOf(t, i) : t \in Members(enum), i \in {idA, idAB}}

\* the types handed to the constructor: none, members of PACKAGE_TYPES and
\* a member of another enumeration
NewTypes == {JsUndef, TYPE_MODULE, TYPE_SYSTEM, TYPE_UNKNOWN, ForeignMember}

InitNew ==
  /\ enum = PACKAGE_TYPES
  /\ last = [op |-> "init", err |-> "none", status |-> "none"]
  /\ game \in Hosts
  /\ args \in [stack_trace : NewTraces, include_fn : {[kind |-> "undefined"]},
               ignore_ids : {[kind |-> "undefined"]}]

\* set() went on to detect_id(), which scans the trace of the call
Detected(snapshot, r, g) ==
  IF r.status = "detect"
  THEN detect_id(snapshot, args.stack_trace, args.ignore_ids, g)
  ELSE r

\* new PackageInfo(id, type) in either snapshot; a behaviour follows the
\* one object it constructs
Construct ==
  \E snapshot \in Snapshots, id \in NewIds, type \in NewTypes :
    /\ last.op = "init"
    /\ last' = [op |-> "new", snapshot |-> snapshot, arg_id |-> id, arg_type |-> type]
                  @@ Detected(snapshot, PackageInfo_set(snapshot, id, type, game), game)
    /\ UNCHANGED <<enum, game, args>>

\* PackageInfo.UNKNOWN
GetUnknown ==
  \E snapshot \in Snapshots :
    /\ last.op = "init"
    /\ last' = [op |-> "UNKNOWN", snapshot |-> snapshot, arg_id |-> UNKNOWN_ID,
                arg_type |-> TYPE_UNKNOWN]
                  @@ PackageInfo_set(snapshot, UNKNOWN_ID, TYPE_UNKNOWN, game)
    /\ UNCHANGED <<enum, game, args>>

\* obj.set(id, type) on an object that exists: the assignments of set
\* throw a TypeError on a frozen object (the module is in strict mode) and
\* a call that throws before its assignments leaves the object as it was
SetOn(obj, r) ==
  IF r.status # "ok" THEN [obj EXCEPT !.err = r.err]
  ELSE IF obj.frozen THEN [obj EXCEPT !.err = "typeerror"]
  ELSE [obj EXCEPT !.id = r.id, !.type = r.type, !.frozen = r.frozen, !.err = "none"]

\* a later call of set on the object a constructor returned
SetAgain ==
  /\ last.op \in {"new", "UNKNOWN"}
  /\ last.status = "ok"
  /\ \E id \in {idB, <<"a", "!">>}, type \in {TYPE_SYSTEM} :
       /\ last' = [SetOn(last, PackageInfo_set(last.snapshot, id, type, game))
                     EXCEPT !.op = "set"]
       /\ UNCHANGED <<enum, game, args>>

NextNew == Construct \/ GetUnknown \/ SetAgain

SpecNew == InitNew /\ [][NextNew]_vars

(***************************************************************************)
(* Compatibility of a package with the version of the host                 *)
(***************************************************************************)
\* a version string is the sequence of its dot-separated numbers; a bound
\* or version that is null, undefined or '' is the empty sequence
NoVersion == <<>>

MaxPart == 2

VersionParts == 1..MaxPart

Versions ==
  {<<a>> : a \in VersionParts} \cup {<<a, b>> : a \in VersionParts, b \in VersionParts}

MaybeVersions == Versions \cup {NoVersion}

\* isNewerVersion(v1, v0) is not newer when it has the same numbers
isNewerVersion_OrEqual(v1, v0) ==
  \/ v1 = v0
  \/ \E i \in 1..Len(v1) :
       /\ \A j \in 1..(i - 1) : j <= Len(v0) /\ v1[j] = v0[j]
       /\ (i > Len(v0) \/ v1[i] > v0[i])

\* isNewerVersion(v1, v0) of the host, to which the polyfill hands its
\* arguments: the first number that differs decides, and a version that
\* continues the other one is the newer
isNewerVersion(v1, v0) ==
  \E i \in 1..Len(v1) :
    /\ \A j \in 1..(i - 1) : j <= Len(v0) /\ v1[j] = v0[j]
    /\ (i > Len(v0) \/ v1[i] > v0[i])

\* the manifests of a package: with a compatibility record (host 10 and
\* newer) or with minimumCoreVersion and compatibleCoreVersion
ManifestsV10 ==
  {[has_compatibility |-> TRUE, minimum |-> a, verified |-> b, maximum |-> c,
    minimumCoreVersion |-> NoVersion, compatibleCoreVersion |-> NoVersion] :
     a \in MaybeVersions, b \in MaybeVersions, c \in MaybeVersions}

ManifestsV9 ==
  {[has_compatibility |-> FALSE, minimum |-> NoVersion, verified |-> NoVersion,
    maximum |-> NoVersion, minimumCoreVersion |-> a, compatibleCoreVersion |-> b] :
     a \in MaybeVersions, b \in MaybeVersions}

Manifests == ManifestsV10 \cup ManifestsV9

PlainManifest ==
  [has_compatibility |-> TRUE, minimum |-> <<1>>, verified |-> NoVersion,
   maximum |-> NoVersion, minimumCoreVersion |-> NoVersion,
   compatibleCoreVersion |-> NoVersion]

\* the hosts of a compatibility check.  No game object yet:
CoreNoGame ==
  [has_game |-> FALSE, has_modules |-> FALSE, has_data |-> FALSE,
   version |-> NoVersion, release_version |-> NoVersion, data_version |-> NoVersion,
   modules |-> <<>>, system |-> [id |-> idB, manifest |-> PlainManifest],
   world |-> [id |-> idB, manifest |-> PlainManifest]]

\* a game object that has neither game.modules nor game.data yet
CoreBare(v) == [CoreNoGame EXCEPT !.has_game = TRUE, !.version = v]

\* a game in which package a is the active module, the system and the world
CoreWith(v, m) ==
  [CoreNoGame EXCEPT !.has_game = TRUE, !.has_modules = TRUE, !.has_data = TRUE,
                     !.version = v,
                     !.modules = (idA :> [active |-> TRUE, manifest |-> m]),
                     !.system = [id |-> idA, manifest |-> m],
                     !.world = [id |-> idA, manifest |-> m]]

\* a game in which package a is an inactive module, or no module at all,
\* and neither the system nor the world
CoreWithout(v, registered) ==
  [CoreNoGame EXCEPT !.has_game = TRUE, !.has_modules = TRUE, !.has_data = TRUE,
                     !.version = v,
                     !.modules = IF registered
                                 THEN (idA :> [active |-> FALSE, manifest |-> PlainManifest])
                                 ELSE (idB :> [active |-> TRUE, manifest |-> PlainManifest])]

\* a game whose version is in game.release.version or game.data.version
CoreOtherSource(v, in_release) ==
  [CoreWith(NoVersion, PlainManifest)
     EXCEPT !.release_version = IF in_release THEN v ELSE NoVersion,
            !.data_version = IF in_release THEN NoVersion ELSE v]

CoreHosts ==
  {CoreNoGame}
  \cup {CoreBare(v) : v \in MaybeVersions}
  \cup {CoreWith(v, m) : v \in MaybeVersions, m \in Manifests}
  \cup {CoreWithout(v, b) : v \in MaybeVersions, b \in BOOLEAN}
  \cup {CoreOtherSource(v, b) : v \in Versions, b \in BOOLEAN}

\* the package asked about: id a under each type
CorePackages ==
  [id : {idA}, type : {TYPE_MODULE, TYPE_SYSTEM, TYPE_WORLD, TYPE_UNKNOWN}]

\* game_version(return_null = true)
game_version(g) ==
  IF ~g.has_game THEN NoVersion
  ELSE IF g.version # NoVersion THEN g.version
  ELSE IF g.release_version # NoVersion THEN g.release_version
  ELSE IF g.has_data THEN g.data_version
  ELSE NoVersion

\* a getter returned v, or threw
Got(v) == [err |-> "none", value |-> v]

GotThrow(err) == [err |-> err, value |-> FALSE]

\* the exists getter, the same in both snapshots: game.modules.get and
\* game.data.system are read without a guard, which throws a TypeError
\* when game, game.modules or game.data is missing
exists(pkg, g) ==
  IF pkg.type = TYPE_MODULE
  THEN IF ~g.has_game \/ ~g.has_modules THEN GotThrow("typeerror")
       ELSE Got(pkg.id \in DOMAIN g.modules /\ g.modules[pkg.id].active)
  ELSE IF pkg.type = TYPE_SYSTEM
  THEN IF ~g.has_game \/ ~g.has_data THEN GotThrow("typeerror")
       ELSE Got(g.system.id = pkg.id)
  ELSE IF pkg.type = TYPE_WORLD
  THEN IF ~g.has_game \/ ~g.has_data THEN GotThrow("typeerror")
       ELSE Got(g.world.id = pkg.id)
  ELSE Got(FALSE)

\* the data getter after exists returned e: null, or the manifest
DataOf(e, pkg, g) ==
  IF e.err # "none" THEN [err |-> e.err, has |-> FALSE, manifest |-> PlainManifest]
  ELSE IF ~e.value THEN [err |-> "none", has |-> FALSE, manifest |-> PlainManifest]
  ELSE IF pkg.type = TYPE_MODULE
  THEN [err |-> "none", has |-> TRUE, manifest |-> g.modules[pkg.id].manifest]
  ELSE IF pkg.type = TYPE_SYSTEM
  THEN [err |-> "none", has |-> TRUE, manifest |-> g.system.manifest]
  ELSE [err |-> "none", has |-> TRUE, manifest |-> g.world.manifest]

data(pkg, g) == DataOf(exists(pkg, g), pkg, g)

\* the core_version_range getter over data d: null, or the bounds; the
\* older snapshot returns [minimumCoreVersion, compatibleCoreVersion]
RangeOf(snapshot, d) ==
  IF d.err # "none" THEN [err |-> d.err, has |-> FALSE, range |-> <<>>]
  ELSE IF ~d.has THEN [err |-> "none", has |-> FALSE, range |-> <<>>]
  ELSE IF snapshot = "old"
  THEN [err |-> "none", has |-> TRUE,
        range |-> <<d.manifest.minimumCoreVersion, d.manifest.compatibleCoreVersion>>]
  ELSE IF d.manifest.has_compatibility
  THEN [err |-> "none", has |-> TRUE,
        range |-> <<d.manifest.minimum, d.manifest.verified, d.manifest.maximum>>]
  ELSE [err |-> "none", has |-> TRUE,
        range |-> <<d.manifest.minimumCoreVersion, d.manifest.compatibleCoreVersion,
                    NoVersion>>]

core_version_range(snapshot, pkg, g) == RangeOf(snapshot, data(pkg, g))

\* the host version a bound is compared with: the whole version when the
\* bound has a dot, else fvtt_version.split('.')[0]
HostPart(bound, fvtt_version) ==
  IF Len(bound) >= 2 THEN fvtt_version ELSE <<fvtt_version[1]>>

\* the three tests of the getter, each skipped for a bound not given
MinimumOk(min, fvtt_min) ==
  min = NoVersion \/ min = fvtt_min \/ isNewerVersion(fvtt_min, min)

VerifiedOk(verif, fvtt_verif) ==
  verif = NoVersion \/ ~isNewerVersion(fvtt_verif, verif)

MaximumOk(max, fvtt_max) ==
  max = NoVersion \/ ~(fvtt_max = max \/ isNewerVersion(fvtt_max, max))

\* the tests over a range: [min, verif, max], and [min, max] in the older
\* snapshot, whose second test is the one of the verified version
InRange(snapshot, range, v) ==
  IF snapshot = "old"
  THEN /\ MinimumOk(range[1], HostPart(range[1], v))
       /\ VerifiedOk(range[2], HostPart(range[2], v))
  ELSE /\ MinimumOk(range[1], HostPart(range[1], v))
       /\ VerifiedOk(range[2], HostPart(range[2], v))
       /\ MaximumOk(range[3], HostPart(range[3], v))

\* the compatible_with_core getter over the range r and host version v
CompatibleOf(snapshot, r, v) ==
  IF r.err # "none" THEN GotThrow(r.err)
  ELSE IF ~r.has \/ v = NoVersion THEN Got(TRUE)
  ELSE Got(InRange(snapshot, r.range, v))

compatible_with_core(snapshot, pkg, g) ==
  CompatibleOf(snapshot, core_version_range(snapshot, pkg, g), game_version(g))

InitCore ==
  /\ enum = PACKAGE_TYPES
  /\ last = [op |-> "init", err |-> "none"]
  /\ game \in CoreHosts
  /\ args \in CorePackages

\* pkg.compatible_with_core in either snapshot
CompatibleWithCore ==
  \E snapshot \in Snapshots :
    /\ last.op = "init"
    /\ last' = [op |-> "compatible_with_core", snapshot |-> snapshot] @@
                  compatible_with_core(snapshot, args, game)
    /\ UNCHANGED <<enum, game, args>>

NextCore == CompatibleWithCore

SpecCore == InitCore /\ [][NextCore]_vars

(***************************************************************************)
(* The version of the library                                              *)
(***************************************************************************)
\* the number of digits [0-9]+ takes from position i of s
DigitRun(s, i) ==
  Cardinality({n \in 1..(Len(s) - i + 1) : \A k \in 0..(n - 1) : s[i + k] \in DigitSet})

\* no string matches the pattern
NoMatch == [ok |-> FALSE, major |-> <<>>, minor |-> <<>>, patch |-> <<>>,
            suffix |-> <<>>, meta |-> <<>>]

\* ([0-9]+).([0-9]+)(.*)$ from position i of s, the first two groups being
\* a and b: the third group is as long as it can be with a character and a
\* digit left after it, for the third separator of the pattern is a bare dot
MatchTail(s, i, a, b) ==
  LET lens == {n \in 1..DigitRun(s, i) : i + n + 1 <= Len(s) /\ s[i + n + 1] \in DigitSet}
  IN IF lens = {} THEN NoMatch
     ELSE LET n == CHOOSE x \in lens : \A y \in lens : y <= x
              j == i + n + 1
              m == DigitRun(s, i + n + 1)
          IN [ok |-> TRUE, major |-> a, minor |-> b, patch |-> SubSeq(s, i, i + n - 1),
              suffix |-> SubSeq(s, j, j + m - 1), meta |-> SubSeq(s, j + m, Len(s))]

\* ([0-9]+)\. from position i of s, then rest
MatchMinor(s, i, a) ==
  LET n == DigitRun(s, i)
  IN IF n >= 1 /\ i + n <= Len(s) /\ s[i + n] = "."
     THEN MatchTail(s, i + n + 1, a, SubSeq(s, i, i + n - 1))
     ELSE NoMatch

\* version.match(/^([0-9]+)\.([0-9]+)\.([0-9]+).([0-9]+)(.*)$/i)
VersionMatch(s) ==
  LET n == DigitRun(s, 1)
  IN IF n >= 1 /\ n + 1 <= Len(s) /\ s[n + 1] = "."
     THEN MatchMinor(s, n + 2, SubSeq(s, 1, n))
     ELSE NoMatch

FallbackString == <<"1", ".", "9", "9", ".", "9", "9", ".", "9", "9">>

UnknownGit == <<"u", "n", "k", "n", "o", "w", "n">>

\* the short form is the first 7 characters of every revision that has them
GitShort_Always7(git) == SubSeq(git, 1, IF Len(git) < 7 THEN Len(git) ELSE 7)

\* (git.length >= 40) ? git.slice(0,7) : git
GitShort(git) == IF Len(git) >= 40 THEN SubSeq(git, 1, 7) ELSE git

\* `${full} (${git_short})`
FullGit(full, git_short) == full \o <<" ", "(">> \o git_short \o <<")">>

\* the version fields: the properties of VERSION, which the older snapshot
\* keeps in the variables VERSION_KNOWN, VERSION, MAJOR_VERSION,
\* MINOR_VERSION, PATCH_VERSION, SUFFIX_VERSION, META_VERSION, GIT_VERSION,
\* GIT_VERSION_SHORT and VERSION_WITH_GIT
VersionRecord(known, full, m, meta, git, full_git) ==
  [known |-> known, full |-> full, major |-> parseInt(m.major).n,
   minor |-> parseInt(m.minor).n, patch |-> parseInt(m.patch).n,
   suffix |-> parseInt(m.suffix).n, meta |-> meta, git |-> git,
   git_short |-> GitShort(git), full_git |-> full_git]

\* a call returned v, or threw
Parsed(v) == [threw |-> FALSE, version |-> v]

\* the result object built from the string version and its match m
ResultOf(known, version, m, git) ==
  IF ~m.ok THEN [threw |-> TRUE, version |-> <<>>]
  ELSE Parsed(VersionRecord(known, version, m, m.meta, git,
                            FullGit(version, GitShort(git))))

\* _parse_manifest_version(version, git_hash)
_parse_manifest_version(version, git_hash) ==
  ResultOf(version.t = "string",
           IF version.t = "string" THEN version.s ELSE FallbackString,
           VersionMatch(IF version.t = "string" THEN version.s ELSE FallbackString),
           IF git_hash.t = "string" THEN git_hash.s ELSE UnknownGit)

\* the value the module starts with, the same in both snapshots
InitialVersion == _parse_manifest_version(JsUndef, JsUndef).version

\* the manifest of the library that the host holds, if any
HasManifest(g) ==
  g.has_game /\ g.has_modules /\ g.size > 0 /\ g.entry = "data"

\* !version_str
NoVersionString(version_str) ==
  \/ version_str.t = "undefined"
  \/ version_str.t = "string" /\ version_str.s = <<>>
  \/ version_str.t = "number" /\ version_str.n = 0

\* the newer parse_manifest_version: VERSION is assigned once the result
\* is complete, and an exception leaves it as it was
parse_manifest_version_new(V, g) ==
  IF V.known THEN V
  ELSE IF ~HasManifest(g) \/ NoVersionString(g.version) THEN V
  ELSE IF _parse_manifest_version(g.version, g.git_version).threw THEN V
  ELSE _parse_manifest_version(g.version, g.git_version).version

\* the assignments of the older snapshot after a match m of the string s
OldAssigned(G, s, m) ==
  VersionRecord(TRUE, s, m, IF m.meta # <<>> /\ m.meta[1] = "-" THEN Tail(m.meta) ELSE m.meta,
                G.git, FullGit(s, G.git_short))

\* the older parse_manifest_version after its assignment of GIT_VERSION
\* and GIT_VERSION_SHORT, G being the fields with these two assigned: a
\* missing string, a value that has no match method and a string that
\* does not match throw
OldParsed(G, version_str) ==
  IF NoVersionString(version_str) \/ version_str.t # "string" THEN G
  ELSE IF ~VersionMatch(version_str.s).ok THEN G
  ELSE OldAssigned(G, version_str.s, VersionMatch(version_str.s))

\* GIT_VERSION = manifest.flags?.git_version ?? 'unknown' and its short form
OldGit(V, git_hash) ==
  [V EXCEPT !.git = IF git_hash.t = "string" THEN git_hash.s ELSE UnknownGit,
            !.git_short = GitShort(IF git_hash.t = "string" THEN git_hash.s ELSE UnknownGit)]

\* the older parse_manifest_version
parse_manifest_version_old(V, g) ==
  IF V.known THEN V
  ELSE IF ~HasManifest(g) THEN V
  ELSE OldParsed(OldGit(V, g.git_version), g.version)

parse_manifest_version(snapshot, V, g) ==
  IF snapshot = "old" THEN parse_manifest_version_old(V, g)
  ELSE parse_manifest_version_new(V, g)

\* a 40-character revision
LongGit == [i \in 1..40 |-> IF i <= 7 THEN "a" ELSE "b"]

\* the values of manifest.flags?.git_version
GitValues ==
  {JsUndef, JsStr(<<"a", "b", "c">>), JsStr(<<"a", "b", "c", "d", "e", "f", "0", "1">>),
   JsStr(LongGit)}

\* the values of manifest.version: none, '', a number, strings the pattern
\* matches and strings it does not
VersionValues ==
  {JsUndef, JsStr(<<>>), JsNum(1),
   JsStr(<<"1", ".", "2", ".", "3", ".", "4">>),
   JsStr(<<"1", "0", ".", "2", "9", "1", ".", "2", ".", "0">>),
   JsStr(<<"2", ".", "1", "0", ".", "0", ".", "7", "-", "r", "c">>),
   JsStr(<<"1", ".", "2", ".", "3", "4", "5">>),
   JsStr(<<"1", ".", "2", ".", "3">>),
   JsStr(<<"v", "1", ".", "2", ".", "3", ".", "4">>)}

\* the hosts of a parse: no game, no game.modules, an empty game.modules,
\* no entry of the library, an entry without data, and manifests
VersionHostShape(has_game, has_modules, size, entry) ==
  [has_game |-> has_game, has_modules |-> has_modules, size |-> size, entry |-> entry,
   git_version |-> JsUndef, version |-> JsUndef]

VersionHosts ==
  {VersionHostShape(FALSE, FALSE, 0, "none"), VersionHostShape(TRUE, FALSE, 0, "none"),
   VersionHostShape(TRUE, TRUE, 0, "none"), VersionHostShape(TRUE, TRUE, 1, "none"),
   VersionHostShape(TRUE, TRUE, 1, "nodata")}
  \cup {[VersionHostShape(TRUE, TRUE, 1, "data") EXCEPT !.git_version = gv, !.version = v] :
          gv \in GitValues, v \in VersionValues}

InitVersion ==
  /\ enum = PACKAGE_TYPES
  /\ \E snapshot \in Snapshots :
       last = [op |-> "init", snapshot |-> snapshot, version |-> InitialVersion]
  /\ game = VersionHostShape(FALSE, FALSE, 0, "none")
  /\ args = <<>>

\* parse_manifest_version()
ParseManifestVersion ==
  /\ last' = [last EXCEPT !.op = "parse_manifest_version",
                          !.version = parse_manifest_version(last.snapshot, last.version, game)]
  /\ UNCHANGED <<enum, game, args>>

\* the host initialises, or the manifest it holds changes
HostChanges ==
  /\ game' \in VersionHosts
  /\ last' = [last EXCEPT !.op = "host"]
  /\ UNCHANGED <<enum, args>>

NextVersion == ParseManifestVersion \/ HostChanges

SpecVersion == InitVersion /\ [][NextVersion]_vars

(***************************************************************************)
(* Tests for a minimum version of the library                              *)
(***************************************************************************)
MaxField == 2

\* the values of a version field and of an argument given
Fields == 0..MaxField

\* an argument that is omitted takes its default 0
DefaultZero(a) == IF a.t = "undefined" THEN 0 ELSE a.n

\* the comparisons of version_at_least, the same in both snapshots, once
\* the defaults are in place
AtLeastFrom(V, major, minor, patch, suffix) ==
  IF V.major = major
  THEN IF V.minor = minor
       THEN IF V.patch = patch THEN V.suffix = suffix ELSE V.patch >= patch
       ELSE V.minor > minor
  ELSE V.major > major

\* version_at_least(major, minor=0, patch=0, suffix=0) with VERSION = V
version_at_least(V, a) ==
  AtLeastFrom(V, a.major.n, DefaultZero(a.minor), DefaultZero(a.patch),
              DefaultZero(a.suffix))

\* the argument lists of a call: trailing arguments may be omitted
AtLeastArgs ==
  {a \in [major : {JsNum(n) : n \in Fields},
          minor : {JsUndef} \cup {JsNum(n) : n \in Fields},
          patch : {JsUndef} \cup {JsNum(n) : n \in Fields},
          suffix : {JsUndef} \cup {JsNum(n) : n \in Fields}] :
     /\ a.minor = JsUndef => a.patch = JsUndef
     /\ a.patch = JsUndef => a.suffix = JsUndef}

InitAtLeast ==
  /\ enum = PACKAGE_TYPES
  /\ last \in [op : {"init"}, version : [major : Fields, minor : Fields,
                                         patch : Fields, suffix : Fields],
               value : {FALSE}]
  /\ game = <<>>
  /\ args \in AtLeastArgs

\* version_at_least(...args)
VersionAtLeast ==
  /\ last.op = "init"
  /\ last' = [last EXCEPT !.op = "version_at_least",
                          !.value = version_at_least(last.version, args)]
  /\ UNCHANGED <<enum, game, args>>

NextAtLeast == VersionAtLeast

SpecAtLeast == InitAtLeast /\ [][NextAtLeast]_vars

(***************************************************************************)
(* The i18n polyfill                                                       *)
(***************************************************************************)
JsNull == [t |-> "null"]

JsObject(props) == [t |-> "object", props |-> props]

\* the keys asked for: two plain keys, a nested key, a key no JSON defines
\* and a key that continues a key whose value is a text
KeyA == <<"a">>
KeyB == <<"b">>
KeyPC == <<"p", ".", "c">>
KeyZ == <<"z">>
KeyAX == <<"a", ".", "x">>

I18nKeys == {KeyA, KeyB, KeyPC, KeyZ, KeyAX}

\* lang/en.json, and the JSON of a language that translates one key
EN_JSON ==
  JsObject((<<"a">> :> JsStr(<<"E", "N", " ", "a">>)) @@
           (<<"b">> :> JsStr(<<"E", "N", " ", "b">>)) @@
           (<<"p">> :> JsObject(<<"c">> :> JsStr(<<"E", "N", " ", "c">>))))

FR_JSON == JsObject(<<"a">> :> JsStr(<<"F", "R", " ", "a">>))

\* split.reduce((x,y) => x?.[y], json)
RECURSIVE Reduce(_, _)
Reduce(x, split) ==
  IF split = <<>> THEN x
  ELSE IF x.t = "object" /\ Head(split) \in DOMAIN x.props
  THEN Reduce(x.props[Head(split)], Tail(split))
  ELSE JsUndef

\* if(res): a text that is not empty, or an object
TruthyValue(v) == v.t = "object" \/ (v.t = "string" /\ v.s # <<>>)

\* the languages whose JSON exists
LangNames == {"fr", "de"}

\* the response to the request for a language file on host g: its JSON,
\* or null when the request fails
Fetched(lang, g) == IF lang \in g.files /\ lang = "fr" THEN FR_JSON ELSE JsNull

\* the languages init() collects: the client language, unless the setting
\* cannot be read, and the language of game.i18n, neither being 'en'
LangsOf(g) ==
  (IF g.client_lang \in {"throws", "en"} THEN <<>> ELSE <<g.client_lang>>) \o
  (IF ~g.i18n \/ g.server_lang = "en" THEN <<>> ELSE <<g.server_lang>>)

\* game.i18n.localize(key) of the host: the key itself when the host has
\* no text for it
HostLocalize(key, g) ==
  IF key \in g.knows THEN JsStr(<<"H">> \o key) ELSE JsStr(key)

\* the loop over this.langs of the newer snapshot from position i on, with
\* the cache jsons: the first truthy text ends it, and every language it
\* asks for is cached, as its JSON or as null
RECURSIVE LangLoop(_, _, _, _, _)
LangLoop(langs, i, jsons, split, g) ==
  IF i > Len(langs) THEN [found |-> FALSE, res |-> JsUndef, jsons |-> jsons]
  ELSE IF langs[i] \in DOMAIN jsons
  THEN IF TruthyValue(Reduce(jsons[langs[i]], split))
       THEN [found |-> TRUE, res |-> Reduce(jsons[langs[i]], split), jsons |-> jsons]
       ELSE LangLoop(langs, i + 1, jsons, split, g)
  ELSE LangLoop(langs, i, (langs[i] :> Fetched(langs[i], g)) @@ jsons, split, g)

\* the loop over this.jsons of the older snapshot
RECURSIVE JsonLoop(_, _, _)
JsonLoop(jsons, i, split) ==
  IF i > Len(jsons) THEN [found |-> FALSE, res |-> JsUndef]
  ELSE IF TruthyValue(Reduce(jsons[i], split))
  THEN [found |-> TRUE, res |-> Reduce(jsons[i], split)]
  ELSE JsonLoop(jsons, i + 1, split)

\* split.reduce(..., en_json) ?? key
EnglishOr(key, has_en) ==
  IF has_en /\ Reduce(EN_JSON, Split(key, ".")).t # "undefined"
  THEN Reduce(EN_JSON, Split(key, "."))
  ELSE JsStr(key)

\* the polyfill of the newer snapshot in module state m: iterating
\* this.langs before init() has set it, or reading this.jsons after
\* on_ready() has deleted it, throws a TypeError, which is caught and
\* answered with the key
PolyfillNew(m, key, loop) ==
  IF ~m.inited THEN [m EXCEPT !.result = JsStr(key)]
  ELSE IF m.langs # <<>> /\ ~m.has_jsons THEN [m EXCEPT !.result = JsStr(key)]
  ELSE IF loop.found THEN [m EXCEPT !.result = loop.res, !.cache = loop.jsons]
  ELSE [m EXCEPT !.result = EnglishOr(key, m.has_en), !.cache = loop.jsons]

\* the polyfill of the older snapshot: the loop runs if(this.jsons)
PolyfillOld(m, key, loop) ==
  IF m.has_jsons /\ loop.found THEN [m EXCEPT !.result = loop.res]
  ELSE [m EXCEPT !.result = EnglishOr(key, m.has_en)]

\* i18n.localize(key) after the host's i18n, if there is one, answered res
LocalizeFrom(m, key, g, res) ==
  IF g.i18n /\ res # JsStr(key) THEN [m EXCEPT !.result = res]
  ELSE IF m.snapshot = "new"
  THEN PolyfillNew(m, key, LangLoop(m.langs, 1, m.cache, Split(key, "."), g))
  ELSE PolyfillOld(m, key, JsonLoop(m.jsons, 1, Split(key, ".")))

localize(m, key, g) == LocalizeFrom(m, key, g, HostLocalize(key, g))

\* the module as it is loaded
I18nModule(snapshot) ==
  [op |-> "init", snapshot |-> snapshot, inited |-> FALSE, langs |-> <<>>,
   has_jsons |-> FALSE, cache |-> <<>>, jsons |-> <<>>, pending |-> <<>>,
   ready |-> FALSE, has_en |-> TRUE, key |-> <<>>, result |-> JsUndef]

\* the hosts: game.i18n is not there yet
I18nHosts ==
  [i18n : {FALSE}, knows : {{}, {KeyA}}, server_lang : {"en", "fr"},
   client_lang : {"throws", "en", "fr", "de"}, files : {{}, {"fr"}}]

InitI18n ==
  /\ enum = PACKAGE_TYPES
  /\ \E snapshot \in Snapshots : last = I18nModule(snapshot)
  /\ game \in I18nHosts
  /\ args \in [rollup : BOOLEAN]

\* i18n.init(): in the older snapshot up to its await
I18nInit ==
  /\ ~last.ready
  /\ last' = IF last.snapshot = "new"
             THEN [last EXCEPT !.op = "i18n.init", !.inited = TRUE, !.langs = LangsOf(game),
                               !.has_jsons = TRUE, !.cache = <<>>]
             ELSE [last EXCEPT !.op = "i18n.init", !.inited = TRUE, !.has_jsons = TRUE,
                               !.jsons = <<>>, !.pending = LangsOf(game)]
  /\ UNCHANGED <<enum, game, args>>

\* the valid results of the fetches, in the order of the languages
RECURSIVE ValidJsons(_, _)
ValidJsons(langs, g) ==
  IF langs = <<>> THEN <<>>
  ELSE (IF Fetched(Head(langs), g).t = "object" THEN <<Fetched(Head(langs), g)>> ELSE <<>>)
         \o ValidJsons(Tail(langs), g)

\* the older init() after its await: the valid JSONs go into this.jsons
I18nFetched ==
  /\ last.snapshot = "old"
  /\ last.pending # <<>>
  /\ last' = [last EXCEPT !.op = "i18n.fetched",
                          !.jsons = last.jsons \o ValidJsons(last.pending, game),
                          !.pending = <<>>]
  /\ UNCHANGED <<enum, game, args>>

\* the host creates game.i18n
HostI18n ==
  /\ ~game.i18n
  /\ game' = [game EXCEPT !.i18n = TRUE]
  /\ last' = [last EXCEPT !.op = "host"]
  /\ UNCHANGED <<enum, args>>

\* i18n.on_ready(), which the newer snapshot hooks on 'ready': en_json is
\* cleared in a build without the bundled JSON
OnReady ==
  /\ last.snapshot = "new"
  /\ game.i18n
  /\ ~last.ready
  /\ last' = [last EXCEPT !.op = "i18n.on_ready", !.ready = TRUE, !.has_jsons = FALSE,
                          !.cache = <<>>,
                          !.has_en = IF args.rollup THEN last.has_en ELSE FALSE]
  /\ UNCHANGED <<enum, game, args>>

\* i18n.localize(key)
Localize ==
  \E key \in I18nKeys :
    /\ last' = [localize(last, key, game) EXCEPT !.op = "i18n.localize", !.key = key]
    /\ UNCHANGED <<enum, game, args>>

NextI18n == I18nInit \/ I18nFetched \/ HostI18n \/ OnReady \/ Localize

SpecI18n == InitI18n /\ [][NextI18n]_vars

(***************************************************************************)
(* Logging: the verbosity and the generated aliases                        *)
(***************************************************************************)
VerbosityEid == 3

\* the values of CRITICAL and ALWAYS, Number.MAX_SAFE_INTEGER - 1 and
\* Number.MAX_SAFE_INTEGER in the source: two adjacent values above every
\* other level, which is all the comparisons of the program use of them
CriticalValue == 998
AlwaysValue == 999

\* VERBOSITY = Enum('PackageType', {ZERO: 0, ..., ALWAYS: ...})
VERBOSITY ==
  CHOOSE e \in Enum(VerbosityEid,
                    [kind |-> "object",
                     items |-> <<[k |-> <<"Z","E","R","O">>, v |-> JsNum(0)],
                                 [k |-> <<"T","R","A","C","E">>, v |-> JsNum(100)],
                                 [k |-> <<"D","E","B","U","G">>, v |-> JsNum(200)],
                                 [k |-> <<"I","N","F","O">>, v |-> JsNum(300)],
                                 [k |-> <<"W","A","R","N","I","N","G">>, v |-> JsNum(400)],
                                 [k |-> <<"E","R","R","O","R">>, v |-> JsNum(500)],
                                 [k |-> <<"C","R","I","T","I","C","A","L">>,
                                  v |-> JsNum(CriticalValue)],
                                 [k |-> <<"A","L","W","A","Y","S">>,
                                  v |-> JsNum(AlwaysValue)]>>],
                    TRUE).enums : TRUE

\* LOG_ALIASES_VERBOSITY_MAP: the name of the level of each alias
LOG_ALIASES_VERBOSITY_MAP ==
  [never |-> <<"Z","E","R","O">>, trace |-> <<"T","R","A","C","E">>,
   debug |-> <<"D","E","B","U","G">>, info |-> <<"I","N","F","O">>,
   warning |-> <<"W","A","R","N","I","N","G">>, warn |-> <<"W","A","R","N","I","N","G">>,
   error |-> <<"E","R","R","O","R">>, critical |-> <<"C","R","I","T","I","C","A","L">>,
   always |-> <<"A","L","W","A","Y","S">>]

\* VERBOSITY_CONSOLEFN_MAP[value]: the method of console for a level value
VERBOSITY_CONSOLEFN_MAP ==
  (0 :> "debug") @@ (100 :> "debug") @@ (200 :> "debug") @@ (300 :> "info") @@
  (400 :> "warn") @@ (500 :> "error") @@ (CriticalValue :> "error") @@ (AlwaysValue :> "info")

\* verbosity_to_value(verbosity)
verbosity_to_value(verbosity) ==
  IF verbosity.t \in {"null", "undefined"} THEN 0
  ELSE IF verbosity.t = "object" THEN verbosity.val.n
  ELSE verbosity.n

\* verbosity_to_mapped_value(verbosity, map, dflt): the entry of the value,
\* else the entry of the first level of VERBOSITY.list that is not below it
verbosity_to_mapped_value(e, value, map, dflt) ==
  IF value \in DOMAIN map THEN map[value]
  ELSE IF \E i \in DOMAIN e.list : value <= e.list[i].val.n
  THEN map[e.list[CHOOSE i \in DOMAIN e.list :
                      /\ value <= e.list[i].val.n
                      /\ \A j \in 1..(i - 1) : value > e.list[j].val.n].val.n]
  ELSE dflt

\* the verbosity getter: CURRENT_VERBOSITY ?? VERBOSITY.WARNING
verbosity(e, current) ==
  IF current.t = "null" THEN e.props[<<"W","A","R","N","I","N","G">>] ELSE current

\* Log.enabled(verbosity)
enabled(e, current, level) ==
  verbosity_to_value(level) >= verbosity_to_value(verbosity(e, current))

\* Log.fn(verbosity): null, or the method of console bound to the prefix
\* of the level
fn(e, current, level) ==
  IF ~enabled(e, current, level) THEN JsNull
  ELSE [t |-> "function",
        console |-> verbosity_to_mapped_value(e, verbosity_to_value(level),
                                               VERBOSITY_CONSOLEFN_MAP, "log"),
        prefix |-> verbosity_to_value(level)]

\* () => {}
NoOp == [t |-> "function", console |-> "none", prefix |-> 0]

\* the aliases are left as they are
generate_log_aliases_Keep(e, current, aliases) == aliases

\* generate_log_aliases(): Log[alias] and Log[alias$] for every alias
generate_log_aliases(e, current, aliases) ==
  [alias \in DOMAIN LOG_ALIASES_VERBOSITY_MAP |->
     [plain |-> IF fn(e, current, e.props[LOG_ALIASES_VERBOSITY_MAP[alias]]) = JsNull
                THEN NoOp
                ELSE fn(e, current, e.props[LOG_ALIASES_VERBOSITY_MAP[alias]]),
      dollar |-> fn(e, current, e.props[LOG_ALIASES_VERBOSITY_MAP[alias]])]]

\* the verbosity setter after VERBOSITY.get(value, value) gave r: a value
\* that is neither a level nor an integer throws, and so does get when it
\* throws; the aliases are generated again once the verbosity is stored
SetFrom(e, m, r) ==
  IF r.status = "throw" THEN [m EXCEPT !.err = r.err]
  ELSE IF ~has(e, r.value) /\ r.value.t # "number" THEN [m EXCEPT !.err = "internal"]
  ELSE [m EXCEPT !.err = "none", !.current = r.value,
                 !.aliases = generate_log_aliases(e, r.value, m.aliases)]

\* Log.verbosity = value
set_verbosity(e, m, value) == SetFrom(e, m, get(e, value, value))

\* Log.init(force) when the setting 'log-verbosity' reads as setting
Log_init(e, m, force, setting) ==
  IF ~force /\ m.current.t # "null" THEN [m EXCEPT !.err = "none"]
  ELSE IF setting.t \in {"null", "undefined"}
  THEN IF force
       THEN [m EXCEPT !.err = "none",
                      !.aliases = generate_log_aliases(e, m.current, m.aliases)]
       ELSE [m EXCEPT !.err = "none"]
  ELSE set_verbosity(e, m, setting)

\* the values assigned to Log.verbosity and read from the setting: levels,
\* names and values of levels as strings, integers that are and are not
\* the value of a level, and values that are no verbosity
VerbosityValues ==
  {VERBOSITY.props[<<"Z","E","R","O">>], VERBOSITY.props[<<"D","E","B","U","G">>],
   VERBOSITY.props[<<"W","A","R","N","I","N","G">>], VERBOSITY.props[<<"A","L","W","A","Y","S">>],
   JsStr(<<"e","r","r","o","r">>), JsStr(<<"3","0","0">>), JsNum(100), JsNum(250),
   JsNum(0 - 1),
   JsNum(AlwaysValue + 1), JsStr(<<"z","z">>), JsNull, JsUndef, ForeignMember}

\* Log as the module leaves it before its Log.init(true): no aliases yet
UnloadedLog ==
  [op |-> "init", err |-> "none", current |-> JsNull,
   aliases |-> [alias \in DOMAIN LOG_ALIASES_VERBOSITY_MAP |->
                  [plain |-> JsUndef, dollar |-> JsUndef]]]

\* the module is loaded when its Log.init(true) does not throw
InitLog ==
  /\ enum = VERBOSITY
  /\ game \in [setting : VerbosityValues]
  /\ last = Log_init(VERBOSITY, UnloadedLog, TRUE, game.setting)
  /\ last.err = "none"
  /\ args = <<>>

\* Log.verbosity = value
SetVerbosity ==
  \E value \in VerbosityValues :
    /\ last' = [set_verbosity(enum, last, value) EXCEPT !.op = "set verbosity"]
    /\ UNCHANGED <<enum, game, args>>

\* Log.init(force)
LogInit ==
  \E force \in BOOLEAN :
    /\ last' = [Log_init(enum, last, force, game.setting) EXCEPT !.op = "Log.init"]
    /\ UNCHANGED <<enum, game, args>>

\* the setting 'log-verbosity' of the host changes
SettingChanges ==
  /\ game' \in [setting : VerbosityValues]
  /\ last' = [last EXCEPT !.op = "host"]
  /\ UNCHANGED <<enum, args>>

NextLog == SetVerbosity \/ LogInit \/ SettingChanges

SpecLog == InitLog /\ [][NextLog]_vars


(***************************************************************************)
(* Validity of package keys (src/package_info.js)                          *)
(***************************************************************************)
\* a result of one of the two static tests: a returned boolean or an error
KeyReturn(b) == [status |-> "return", value |-> b, err |-> "none"]

KeyThrow == [status |-> "throw", value |-> FALSE, err |-> "get"]

\* is_valid_key after the call of parse_key: !id || !type, then is_valid_id
ValidParsed(p) ==
  IF p.status = "throw"
  THEN KeyThrow
  ELSE IF p.id = <<>> \/ p.type = JsUndef
  THEN KeyReturn(FALSE)
  ELSE KeyReturn(is_valid_id(p.id))

\* PackageInfo.is_valid_key(key)
is_valid_key(key) ==
  IF key.t # "string" \/ key.s = <<>>
  THEN KeyReturn(FALSE)
  ELSE ValidParsed(parse_key(key.s))

\* is_valid_key(k) || is_valid_id(k), the right side evaluated only when
\* the left side returned false
OrValidId(r, key_or_id) ==
  IF r.status = "throw" \/ r.value
  THEN r
  ELSE KeyReturn(key_or_id.t = "string" /\ is_valid_id(key_or_id.s))

\* PackageInfo.is_valid_key_or_id(key_or_id)
is_valid_key_or_id(key_or_id) == OrValidId(is_valid_key(key_or_id), key_or_id)

\* what stands before the separator: nothing, the names of the package
\* types in either letter case, a word that is no type name, a number
KeyPrefixes ==
  {<<>>, <<"x">>, <<"1">>, <<"m","o","d","u","l","e","s">>}
  \cup {m.name : m \in Members(enum)}
  \cup {toLowerCase(m.name) : m \in Members(enum)}

\* what stands after it: nothing, identifiers, and texts that are none
KeyIds == {<<>>, idA, idAB, PACKAGE_ID, <<"a", "!">>, <<"a", ":", "b">>}

\* the values handed to the two tests: values that are no strings, bare
\* identifiers, and every prefix joined to every identifier
KeyValues ==
  {JsUndef, JsNull, JsNum(0), JsNum(1), TYPE_MODULE}
  \cup {JsStr(i) : i \in KeyIds}
  \cup {JsStr(p \o <<KEY_SEPARATOR>> \o i) : p \in KeyPrefixes, i \in KeyIds}

InitKey ==
  /\ enum = PACKAGE_TYPES
  /\ last = [op |-> "init", err |-> "none", status |-> "none"]
  /\ game = NoGame
  /\ args = <<>>

KeyDone(op, key, r) ==
  /\ last' = [op |-> op, key |-> key, err |-> r.err, status |-> r.status,
              ret |-> r.value]
  /\ UNCHANGED <<enum, game, args>>

\* PackageInfo.is_valid_key(key)
IsValidKey == \E key \in KeyValues : KeyDone("is_valid_key", key, is_valid_key(key))

\* PackageInfo.is_valid_key_or_id(key_or_id)
IsValidKeyOrId ==
  \E key \in KeyValues : KeyDone("is_valid_key_or_id", key, is_valid_key_or_id(key))

NextKey == IsValidKey \/ IsValidKeyOrId

SpecKey == InitKey /\ [][NextKey]_vars

(***************************************************************************)
(* Properties of lookup, checked under SpecGet                             *)
(***************************************************************************)
ListMembers(e) == {e.list[i] : i \in DOMAIN e.list}

\* C1: for every member m of the enumeration, get(m) returns the very same
\* object m, with or without a default argument.
C1_PassThrough ==
  (last.op = "get" /\ last.key \in ListMembers(enum))
     => (last.status = "return" /\ last.ret = last.key)

\* a member of a mapping-built enumeration was looked up with a default
C1_Witness ==
  /\ last.op = "get"
  /\ last.key \in ListMembers(enum)
  /\ enum.has_value
  /\ last.dflt # JsUndef
  /\ last.ret = last.key

\* C2: for every member m with name N, get(N) and get(N in lower case)
\* both return m, in list-built and in mapping-built enumerations.
C2_ByName ==
  (last.op = "get" /\ last.key.t = "string")
     => \A m \in ListMembers(enum) :
           last.key.s \in {m.name, toLowerCase(m.name)}
              => (last.status = "return" /\ last.ret = m)

\* a lower-case name was looked up in a list-built enumeration
C2_Witness ==
  /\ last.op = "get"
  /\ last.key.t = "string"
  /\ ~enum.has_value
  /\ \E m \in ListMembers(enum) :
        /\ last.key.s = toLowerCase(m.name)
        /\ last.key.s # m.name
        /\ last.ret = m

\* C3 as stated: for every member m with value V of an enumeration built
\* with explicit values, get(V) returns m, and when V is an integer
\* get(String(V)) returns m too.
C3_ByValue_AsStated ==
  last.op = "get"
     => \A m \in ListMembers(enum) :
           /\ (m.val # JsUndef /\ last.key = m.val)
                 => (last.status = "return" /\ last.ret = m)
           /\ (m.val.t = "number" /\ last.key = JsStr(IntToString(m.val.n)))
                 => (last.status = "return" /\ last.ret = m)

\* the upper-case form of string s is the name of a member of e
IsMemberName(e, s) == \E m \in ListMembers(e) : m.name = toUpperCase(s)

\* C3 (amended): get(V) returns m unless V is a string whose upper-case form
\* is the name of a member, and for an integer V get(String(V)) returns m
\* unless a member has the string String(V) itself as its value: the name
\* lookup and the exact value match come before the integer parse.
C3_ByValue ==
  last.op = "get"
     => \A m \in ListMembers(enum) :
           /\ (/\ m.val # JsUndef
               /\ last.key = m.val
               /\ ~(m.val.t = "string" /\ IsMemberName(enum, m.val.s)))
                 => (last.status = "return" /\ last.ret = m)
           /\ (/\ m.val.t = "number"
               /\ last.key = JsStr(IntToString(m.val.n))
               /\ \A o \in ListMembers(enum) : o.val # last.key)
                 => (last.status = "return" /\ last.ret = m)

\* the string form of an integer value was looked up and gave its member
C3_Witness ==
  /\ last.op = "get"
  /\ last.key.t = "string"
  /\ \E m \in ListMembers(enum) :
        /\ m.val.t = "number"
        /\ last.key.s = IntToString(m.val.n)
        /\ last.ret = m

\* key is no member of e, no name of a member in either case, no value of
\* a member and no string form of one
Nonexistent(e, key) ==
  /\ key \notin ListMembers(e)
  /\ \A m \in ListMembers(e) :
        /\ key # m.val
        /\ key.t = "string" => toUpperCase(key.s) # m.name
        /\ (key.t = "string" /\ m.val.t = "number") => key.s # IntToString(m.val.n)

\* C4: for every enumeration, also a list-built one, and every key that is
\* no member, name or value, get(key, d) returns d when a default is
\* supplied and get(key) fails with the not-found error otherwise.
C4_NotFound ==
  (last.op = "get" /\ Nonexistent(enum, last.key))
     => IF last.dflt # JsUndef
        THEN last.status = "return" /\ last.ret = last.dflt
        ELSE last.status = "throw" /\ last.err = "notfound"

(***************************************************************************)
(* Properties of construction and extension, checked under Spec            *)
(***************************************************************************)
\* the characters of the model in code unit order
CharOrder == <<"-">> \o Digits \o UpperLetters \o LowerLetters

\* a <= b for two strings: code unit order, a prefix first
RECURSIVE StringLeq(_, _)
StringLeq(a, b) ==
  IF a = <<>> THEN TRUE
  ELSE IF b = <<>> THEN FALSE
  ELSE IF a[1] = b[1] THEN StringLeq(Tail(a), Tail(b))
  ELSE IndexIn(a[1], CharOrder) < IndexIn(b[1], CharOrder)

\* the number a value stands for in a comparison, an absent value being 0
AsNumber(v) ==
  CASE v.t = "undefined" -> [nan |-> FALSE, n |-> 0]
    [] v.t = "number"    -> [nan |-> FALSE, n |-> v.n]
    [] v.t = "string"    -> StringToNumber(v.s)

\* a <= b as the language compares two values, an absent value being 0
ValueLeq(a, b) ==
  IF a.t = "string" /\ b.t = "string"
  THEN StringLeq(a.s, b.s)
  ELSE ~AsNumber(a).nan /\ ~AsNumber(b).nan /\ AsNumber(a).n <= AsNumber(b).n

Sorted(list) ==
  \A i \in 1..(Len(list) - 1) : ValueLeq(list[i].val, list[i + 1].val)

\* C5 as stated: in every reachable state of an enumeration, also after an
\* insertion with sort deferred, the member list is sorted ascending by
\* value, an absent value counted as 0.
C5_Sorted_AsStated == Sorted(enum.list)

\* every member of the list has a number or no value
NumericValues(list) ==
  \A i \in DOMAIN list : list[i].val.t \in {"undefined", "number"}

\* C5 (amended): after Enum has returned and after every EnumValue insertion
\* made with sort enabled, the member list of an enumeration whose values
\* are numbers or absent is sorted ascending by value, an absent value
\* counted as 0; an insertion with sort deferred leaves the new member last.
C5_Sorted ==
  (/\ \/ last.op = "init"
      \/ last.op = "Enum" /\ last.err = "none"
      \/ last.op = "EnumValue" /\ last.err = "none" /\ last.sort
   /\ NumericValues(enum.list))
     => Sorted(enum.list)

\* a sorting insertion put the new member before an older one
C5_Witness ==
  /\ last.op = "EnumValue"
  /\ last.err = "none"
  /\ last.sort
  /\ NumericValues(enum.list)
  /\ Len(enum.list) >= 2
  /\ enum.list[Len(enum.list)].name # last.name
  /\ Sorted(enum.list)

ListNames(e) == {m.name : m \in ListMembers(e)}

ListValues(e) == {m.val : m \in ListMembers(e)} \ {JsUndef}

\* the items of a collection which Enum can take without a name error
AllUpperCase(items) == \A i \in DOMAIN items : items[i].k = toUpperCase(items[i].k)

RepeatedName(items) == \E i, j \in DOMAIN items : i # j /\ items[i].k = items[j].k

RepeatedValue(items) ==
  \E i, j \in DOMAIN items : i # j /\ items[i].v # JsUndef /\ items[i].v = items[j].v

\* the outcome of Enum on a collection of upper-case names
C6_Create ==
  (last'.op = "Enum" /\ AllUpperCase(CollectionItems(last'.collection)))
     => LET items == CollectionItems(last'.collection)
        IN /\ RepeatedName(items) => last'.err = "dupname"
           /\ (~RepeatedName(items) /\ RepeatedValue(items)) => last'.err = "dupvalue"
           /\ (~RepeatedName(items) /\ ~RepeatedValue(items)) => last'.err = "none"

\* the outcome of EnumValue on an enumeration that is not frozen
C6_Extend ==
  (last'.op = "EnumValue" /\ ~enum.frozen /\ last'.name = toUpperCase(last'.name))
     => /\ last'.name \in DOMAIN enum.props => last'.err = "dupname"
        /\ (last'.name \notin DOMAIN enum.props /\ last'.value \in ListValues(enum))
              => last'.err = "dupvalue"
        /\ last'.value = JsUndef => last'.err # "dupvalue"

\* C6: creating or extending an enumeration fails with the duplicate-name
\* error when a name is supplied that the enumeration already has, and with
\* the duplicate-value error when an explicit value is supplied that
\* another member already has; absent values are never duplicates.
C6_Duplicates == [][C6_Create /\ C6_Extend]_vars

\* an extension was refused because another member has the value
C6_Witness ==
  /\ last.op = "EnumValue"
  /\ last.err = "dupvalue"
  /\ last.value \in ListValues(enum)
  /\ last.name \notin ListNames(enum)

\* C7: once an enumeration is frozen every EnumValue call on it fails with
\* the frozen-enumeration error and leaves the name mapping, the member
\* list and the reverse map as they were.
C7_Frozen ==
  [][(enum.frozen /\ last'.op = "EnumValue")
        => (last'.err = "frozen" /\ enum' = enum)]_vars

\* EnumValue was refused on an enumeration built with the default freeze
C7_Witness ==
  /\ last.op = "EnumValue"
  /\ last.err = "frozen"
  /\ enum.eid = TestEid
  /\ enum.frozen
  /\ last.name \notin ListNames(enum)

(***************************************************************************)
(* Properties of the resolver, checked under SpecPkg                       *)
(***************************************************************************)
\* the (type name, id) pairs of a list of matches or of package objects
PairOf(x) == <<x.type.name, x.id>>

\* the matches of the scan that the include predicate accepted
AcceptedCalls(calls, include_fn) ==
  SelectSeq(calls, LAMBDA c : Included(include_fn, c.id, c.type, c.text))

\* the position at which a pair first appears among the matches
FirstAt(matches, pair) ==
  CHOOSE i \in DOMAIN matches :
     PairOf(matches[i]) = pair /\ \A j \in DOMAIN matches : PairOf(matches[j]) = pair => i <= j

\* list holds one object per distinct pair of matches, none repeated, in
\* the order in which the pairs first appear
OnePerPairInOrder(list, matches) ==
  /\ \A i, j \in DOMAIN list : PairOf(list[i]) = PairOf(list[j]) => i = j
  /\ {PairOf(list[i]) : i \in DOMAIN list} = {PairOf(matches[i]) : i \in DOMAIN matches}
  /\ \A i, j \in DOMAIN list :
        i < j => FirstAt(matches, PairOf(list[i])) < FirstAt(matches, PairOf(list[j]))

\* C8: collect_all returns one PackageInfo per distinct (type, id) pair
\* among the surviving matches of the trace, no pair repeated, in the order
\* in which each pair first appears in the trace; in both snapshots.
C8_OnePerPair ==
  (last.op = "collect_all" /\ last.status = "return")
     => OnePerPairInOrder(last.modules, AcceptedCalls(last.calls, args.include_fn))

\* C8 in the current snapshot alone
C8_OnePerPair_New ==
  (last.op = "collect_all" /\ last.status = "return" /\ last.snapshot = "new")
     => OnePerPairInOrder(last.modules, AcceptedCalls(last.calls, args.include_fn))

\* the current snapshot returned fewer objects than it had matches
C8_Witness_New ==
  /\ last.op = "collect_all"
  /\ last.status = "return"
  /\ last.snapshot = "new"
  /\ Len(last.modules) = 1
  /\ Len(AcceptedCalls(last.calls, args.include_fn)) = 2

\* the member name that the claims give to a root directory
ClassOf(root) ==
  CASE root = <<"w","o","r","l","d","s">>     -> sWORLD
    [] root = <<"s","y","s","t","e","m","s">> -> sSYSTEM
    [] root = <<"m","o","d","u","l","e","s">> -> sMODULE
    [] OTHER                                  -> sUNKNOWN

\* the only package path of the trace is a modules path with identifier id
OnlyModulePath(stack_trace, id) ==
  /\ \E i \in DOMAIN stack_trace : MatchOf(stack_trace[i]).found
  /\ \A i \in DOMAIN stack_trace :
        LET m == MatchOf(stack_trace[i])
        IN m.found => (m.type = <<"m","o","d","u","l","e","s">> /\ m.name = id)

\* the identifiers that occur in the lines of the model
TraceIds == {MatchOf(l).name : l \in {x \in Lines : MatchOf(x).found}}

\* the call returned exactly one object, with identifier id and type MODULE
ReturnsOneModule(id) ==
  /\ last.status = "return"
  /\ Len(last.modules) = 1
  /\ last.modules[1].id = id
  /\ last.modules[1].type.name = sMODULE
  /\ last.modules[1].type.eid = PackageTypesEid

\* every match reported by the scan, and every object returned, has the
\* type of the root directory of a matched line
ClassifiedByRoot ==
  /\ \A k \in DOMAIN last.calls :
        LET m == MatchOf(last.calls[k].text)
        IN /\ last.calls[k].id = m.name
           /\ last.calls[k].type.name = ClassOf(m.type)
           /\ last.calls[k].type.eid = PackageTypesEid
  /\ \A k \in DOMAIN last.modules :
        \E i \in DOMAIN args.stack_trace :
           LET m == MatchOf(args.stack_trace[i])
           IN /\ m.found
              /\ last.modules[k].id = m.name
              /\ last.modules[k].type.name = ClassOf(m.type)

\* C9 as stated: a trace whose only package path is a modules path with a
\* valid identifier, and no ignore list (nor include predicate), gives
\* exactly one PackageInfo with that identifier and type MODULE, whatever
\* the host registries hold.
C9_SingleModule_AsStated ==
  (last.op = "collect_all" /\ last.snapshot = "new")
     => \A id \in TraceIds :
           ( /\ OnlyModulePath(args.stack_trace, id)
             /\ is_valid_id(id)
             /\ args.ignore_ids.kind = "undefined"
             /\ args.include_fn.kind = "undefined" )
           => ReturnsOneModule(id)

\* C9: in the current snapshot, a trace whose only package path is a
\* modules path with a valid identifier, no ignore list, no include
\* predicate, and a host whose module registry is unavailable or has the
\* identifier, gives exactly one PackageInfo with that identifier and type
\* MODULE; and each match is classified by its root directory: worlds ->
\* WORLD, systems -> SYSTEM, modules -> MODULE.
C9_SingleModule ==
  (last.op = "collect_all" /\ last.snapshot = "new")
     => /\ \A id \in TraceIds :
              ( /\ OnlyModulePath(args.stack_trace, id)
                /\ is_valid_id(id)
                /\ args.ignore_ids.kind = "undefined"
                /\ args.include_fn.kind = "undefined"
                /\ (game.has_modules => id \in DOMAIN game.modules) )
              => ReturnsOneModule(id)
        /\ ClassifiedByRoot

\* a host whose registry has the module of the only package path, and the
\* current snapshot has returned
C9_Witness ==
  /\ last.op = "collect_all"
  /\ last.snapshot = "new"
  /\ OnlyModulePath(args.stack_trace, idAB)
  /\ args.ignore_ids.kind = "undefined"
  /\ args.include_fn.kind = "undefined"
  /\ game.has_modules
  /\ idAB \in DOMAIN game.modules
  /\ ReturnsOneModule(idAB)

\* the host knows the package of a match, or has no registry for its kind
HostKnows(m, g) ==
  CASE m.type = <<"w","o","r","l","d","s">>     -> g.world = <<>> \/ m.name = g.world
    [] m.type = <<"s","y","s","t","e","m","s">> -> g.system = <<>> \/ m.name = g.system
    [] m.type = <<"m","o","d","u","l","e","s">> -> ~g.has_modules \/ m.name \in DOMAIN g.modules
    [] OTHER                                    -> FALSE

\* ignore_ids is a string equal to n, or a collection with the element n
NamedBy(ignore_ids, n) ==
  CASE ignore_ids.kind = "string" -> ignore_ids.s = n
    [] ignore_ids.kind = "array"  -> n \in ignore_ids.items
    [] ignore_ids.kind = "set"    -> n \in ignore_ids.items
    [] OTHER                      -> FALSE

\* the scan called matchFn for the line
Reported(line) == \E k \in DOMAIN last.calls : last.calls[k].text = line

\* C10: in a scan that completes, a module match with identifier n that the
\* host knows is skipped exactly when ignore_ids is a string equal to n or a
\* collection that contains n; a module whose identifier is only a substring
\* of a string ignore_ids is reported; world and system matches are never
\* skipped because of ignore_ids.
C10_Ignore ==
  (last.op = "collect_all" /\ last.err # "invalid_script_type")
     => \A i \in DOMAIN args.stack_trace :
           LET line == args.stack_trace[i]
               m    == MatchOf(line)
           IN (m.found /\ HostKnows(m, game))
                 => (Reported(line) <=>
                       ~(m.type = <<"m","o","d","u","l","e","s">>
                           /\ NamedBy(args.ignore_ids, m.name)))

\* C11: when the host registries are available, every match a scan reports
\* refers to a package the host knows: a module only if the module registry
\* has its id, a system only if it is the current system, a world only if
\* it is the current world.
C11_KnownToHost ==
  last.op = "collect_all"
     => \A k \in DOMAIN last.calls :
           LET c == last.calls[k]
           IN /\ (c.type.name = sMODULE /\ game.has_modules) => c.id \in DOMAIN game.modules
              /\ (c.type.name = sSYSTEM /\ game.system # <<>>) => c.id = game.system
              /\ (c.type.name = sWORLD /\ game.world # <<>>) => c.id = game.world

\* a host with registries, a scan that reported one match and skipped
\* another that the host does not know
C11_Witness ==
  /\ last.op = "collect_all"
  /\ game.has_modules
  /\ game.system # <<>>
  /\ game.world # <<>>
  /\ last.calls # <<>>
  /\ \E i \in DOMAIN args.stack_trace :
        /\ MatchOf(args.stack_trace[i]).found
        /\ MatchOf(args.stack_trace[i]).type = <<"m","o","d","u","l","e","s">>
        /\ MatchOf(args.stack_trace[i]).name \notin DOMAIN game.modules
        /\ ~Reported(args.stack_trace[i])

\* the predicate of the call, when there is one, returns true for the match
Accepts(c) == c.text \notin args.include_fn.rejects

\* the pairs of the matches that the predicate accepts
AcceptedPairs == {PairOf(last.calls[k]) : k \in
                    {x \in DOMAIN last.calls : Accepts(last.calls[x])}}

\* the result holds exactly the pairs of the accepted matches
HoldsAcceptedPairs ==
  last.status = "return"
     => {PairOf(last.modules[k]) : k \in DOMAIN last.modules} = AcceptedPairs

\* C12 as stated: the include predicate is invoked once for every surviving
\* match, with its id, type and matched text, and the result holds exactly
\* the pairs of the matches it accepted.
C12_Predicate_AsStated ==
  (last.op = "collect_all" /\ last.snapshot = "new" /\ args.include_fn.kind = "function")
     => (last.asked = last.calls /\ HoldsAcceptedPairs)

\* an earlier match of the same pair was accepted
AlreadyCollected(k) ==
  \E j \in 1..(k - 1) :
     /\ PairOf(last.calls[j]) = PairOf(last.calls[k])
     /\ Accepts(last.calls[j])

\* C12: in the current snapshot the include predicate is invoked, with id,
\* type and matched text, once for every surviving match whose pair has not
\* been collected from an earlier match, and for no other; a rejected match
\* does not stop the scan; the result holds exactly the pairs having a
\* surviving match that the predicate accepts.
C12_Predicate ==
  (last.op = "collect_all" /\ last.snapshot = "new" /\ args.include_fn.kind = "function")
     => /\ last.asked =
             [r \in DOMAIN SelectSeq([k \in DOMAIN last.calls |-> k],
                                     LAMBDA k : ~AlreadyCollected(k)) |->
                last.calls[SelectSeq([k \in DOMAIN last.calls |-> k],
                                     LAMBDA k : ~AlreadyCollected(k))[r]]]
        /\ HoldsAcceptedPairs

\* the predicate rejected the first match and the scan went on to a match
\* that it accepted
C12_Witness ==
  /\ last.op = "collect_all"
  /\ last.snapshot = "new"
  /\ last.status = "return"
  /\ args.include_fn.kind = "function"
  /\ Len(last.asked) = 2
  /\ ~Accepts(last.asked[1])
  /\ Len(last.modules) = 1
  /\ last.modules[1].id = last.asked[2].id

\* the outcomes of the scan of the trace of the call
TraceOutcomes == ScanOutcomes(args.stack_trace, args.ignore_ids, game)

\* the surviving matches: the outcomes for which matchFn is called
Surviving == {i \in DOMAIN TraceOutcomes : TraceOutcomes[i].kind = "call"}

\* the first surviving match
FirstSurviving == CHOOSE i \in Surviving : \A j \in Surviving : i <= j

\* the scan reaches position i without raising
ReachedQuietly(i) == \A j \in 1..i : j \in DOMAIN TraceOutcomes => TraceOutcomes[j].kind # "throw"

\* C13: auto-detection yields the identity of the first surviving match in
\* trace order and examines no later match; when the scan completes with
\* no surviving match the result is the unknown identity, and detection
\* does not raise.
C13_FirstMatch ==
  (last.op = "detect_id" /\ last.snapshot = "new")
     => /\ (Surviving # {} /\ ReachedQuietly(FirstSurviving))
              => /\ last.status = "ok"
                 /\ last.id = TraceOutcomes[FirstSurviving].id
                 /\ last.type = TraceOutcomes[FirstSurviving].type
                 /\ last.examined = FirstSurviving
        /\ (Surviving = {} /\ ReachedQuietly(Len(TraceOutcomes)))
              => /\ last.status = "ok"
                 /\ last.id = UNKNOWN_ID
                 /\ last.type.name = sUNKNOWN

\* C13 for traces whose first surviving match has a valid identifier
C13_FirstMatch_ValidId ==
  (last.op = "detect_id" /\ last.snapshot = "new")
     => /\ ( /\ Surviving # {}
             /\ ReachedQuietly(FirstSurviving)
             /\ is_valid_id(TraceOutcomes[FirstSurviving].id) )
              => /\ last.status = "ok"
                 /\ last.id = TraceOutcomes[FirstSurviving].id
                 /\ last.type = TraceOutcomes[FirstSurviving].type
                 /\ last.examined = FirstSurviving
        /\ (Surviving = {} /\ ReachedQuietly(Len(TraceOutcomes)))
              => /\ last.status = "ok"
                 /\ last.id = UNKNOWN_ID
                 /\ last.type.name = sUNKNOWN

\* detection skipped a match and stopped at the next, with a match left
C13_Witness_ValidId ==
  /\ last.op = "detect_id"
  /\ last.snapshot = "new"
  /\ last.status = "ok"
  /\ last.examined = 2
  /\ Len(TraceOutcomes) = 2
  /\ last.id = idA

(***************************************************************************)
(* Properties of construction, checked under SpecNew                       *)
(***************************************************************************)
\* the members of PACKAGE_TYPES other than UNKNOWN
KnownTypes == {TYPE_MODULE, TYPE_SYSTEM, TYPE_WORLD}

\* C14: for every package type T other than UNKNOWN and every valid
\* identifier i, PackageInfo('<T lower-cased>:<i>') has the id i and the
\* type T, as PackageInfo(i, T) has, whatever the host registries contain,
\* in both snapshots.
C14_KeyRoundTrip ==
  last.op = "new"
     => \A t \in KnownTypes, i \in {idA, idAB} :
           /\ (last.arg_id = i /\ last.arg_type = t)
                 => (last.status = "ok" /\ last.id = i /\ last.type = t)
           /\ (last.arg_id = toLowerCase(t.name) \o <<":">> \o i /\ last.arg_type = JsUndef)
                 => (last.status = "ok" /\ last.id = i /\ last.type = t)

\* C14 in the current snapshot alone
C14_KeyRoundTrip_New ==
  (last.op = "new" /\ last.snapshot = "new")
     => \A t \in KnownTypes, i \in {idA, idAB} :
           /\ (last.arg_id = i /\ last.arg_type = t)
                 => (last.status = "ok" /\ last.id = i /\ last.type = t)
           /\ (last.arg_id = toLowerCase(t.name) \o <<":">> \o i /\ last.arg_type = JsUndef)
                 => (last.status = "ok" /\ last.id = i /\ last.type = t)

\* the current snapshot has built an object from a key of a module that
\* the host's registry holds as inactive
C14_Witness_New ==
  /\ last.op = "new"
  /\ last.snapshot = "new"
  /\ last.arg_id = <<"m","o","d","u","l","e",":","a","b">>
  /\ last.arg_type = JsUndef
  /\ game.has_modules
  /\ last.status = "ok"
  /\ last.type.name = sMODULE

\* k is '<name of a package type>:<valid identifier>'
WellFormedKey(k) ==
  /\ Len(Split(k, ":")) = 2
  /\ toUpperCase(Split(k, ":")[1]) \in DOMAIN enum.props
  /\ is_valid_id(Split(k, ":")[2])

\* the string has a character outside letters, digits, "_" and "-"
HasForeignChar(k) == \E i \in DOMAIN k : ~IsIdChar(k[i])

\* C15: constructing a PackageInfo with an id that is neither the sentinel
\* nor a well-formed composite key and that has a character outside
\* letters, digits, "_" and "-" fails with the invalid-package-ID error;
\* every object constructed has the sentinel or an id of that charset as
\* its id and a member of PACKAGE_TYPES as its type.
C15_InvalidId ==
  (last.op = "new" /\ last.snapshot = "new")
     => /\ ( /\ last.arg_id # UNKNOWN_ID
             /\ ~WellFormedKey(last.arg_id)
             /\ HasForeignChar(last.arg_id) )
              => (last.status = "throw" /\ last.err = "invalid_id")
        /\ last.status = "ok"
              => /\ last.id = UNKNOWN_ID \/ is_valid_id(last.id)
                 /\ last.type \in Members(enum)

\* the name of the type that the priority order gives id on the host: an
\* active module, else the current system, else the current world
ByPriority(id) ==
  IF game.has_modules /\ id \in DOMAIN game.modules /\ game.modules[id] THEN sMODULE
  ELSE IF id = game.system THEN sSYSTEM
  ELSE IF id = game.world THEN sWORLD
  ELSE sUNKNOWN

\* a constructor was given an identifier and no type
IdAlone == last.op = "new" /\ last.arg_type = JsUndef /\ is_valid_id(last.arg_id)

\* C16 as stated: a PackageInfo constructed with a valid id and no type
\* gets MODULE if the module registry has an active module of that id, else
\* SYSTEM if the id is the current system, else WORLD if it is the current
\* world, else UNKNOWN.
C16_Priority_AsStated ==
  IdAlone => (last.status = "ok" /\ last.type.name = ByPriority(last.arg_id))

\* C16: when the module registry is available the type is derived in that
\* priority order; while it is not available the type is MODULE for the id
\* of the library itself and UNKNOWN for every other id.
C16_Priority ==
  IdAlone
     => /\ last.status = "ok"
        /\ last.id = last.arg_id
        /\ last.type.eid = PackageTypesEid
        /\ game.has_modules => last.type.name = ByPriority(last.arg_id)
        /\ ~game.has_modules
              => last.type.name = IF last.arg_id = PACKAGE_ID THEN sMODULE ELSE sUNKNOWN

\* an id that is an active module and the current system was given
C16_Witness ==
  /\ IdAlone
  /\ game.has_modules
  /\ last.arg_id \in DOMAIN game.modules
  /\ game.modules[last.arg_id]
  /\ last.arg_id = game.system
  /\ last.type.name = sMODULE

\* C17: every PackageInfo that a construction returns (explicit id and
\* type, composite key, unknown sentinel, PackageInfo.UNKNOWN, detection
\* with or without a match) is frozen, and no later call of set changes
\* its id or type.
C17_FrozenObject ==
  [][ /\ (last'.op \in {"new", "UNKNOWN"} /\ last'.status = "ok") => last'.frozen
      /\ last'.op = "set" => (last'.id = last.id /\ last'.type = last.type) ]_vars

\* C17 for the objects whose id is not the sentinel
C17_FrozenObject_Known ==
  [][ /\ (last'.op \in {"new", "UNKNOWN"} /\ last'.status = "ok" /\ last'.id # UNKNOWN_ID)
         => last'.frozen
      /\ (last'.op = "set" /\ last.id # UNKNOWN_ID)
         => (last'.id = last.id /\ last'.type = last.type) ]_vars

(***************************************************************************)
(* Properties of compatible_with_core, checked under SpecCore              *)
(***************************************************************************)
\* the host holds data of the package asked about: it is an active module,
\* the system or the world of a game that has its registries
HostHolds ==
  /\ game.has_game
  /\ \/ args.type = TYPE_MODULE /\ game.has_modules /\ args.id \in DOMAIN game.modules
        /\ game.modules[args.id].active
     \/ args.type = TYPE_SYSTEM /\ game.has_data /\ game.system.id = args.id
     \/ args.type = TYPE_WORLD /\ game.has_data /\ game.world.id = args.id

\* the manifest the host holds for the package asked about
HeldManifest ==
  IF args.type = TYPE_MODULE THEN game.modules[args.id].manifest
  ELSE IF args.type = TYPE_SYSTEM THEN game.system.manifest
  ELSE game.world.manifest

\* the bounds of the held manifest as the snapshot reads them
HeldRange(snapshot) ==
  IF snapshot = "new" /\ HeldManifest.has_compatibility
  THEN <<HeldManifest.minimum, HeldManifest.verified, HeldManifest.maximum>>
  ELSE <<HeldManifest.minimumCoreVersion, HeldManifest.compatibleCoreVersion, NoVersion>>

HostVersion ==
  IF ~game.has_game THEN NoVersion
  ELSE IF game.version # NoVersion THEN game.version
  ELSE IF game.release_version # NoVersion THEN game.release_version
  ELSE IF game.has_data THEN game.data_version ELSE NoVersion

\* a piece of version information is unavailable
Unavailable(snapshot) ==
  \/ ~HostHolds
  \/ HostVersion = NoVersion
  \/ HeldRange(snapshot) = <<NoVersion, NoVersion, NoVersion>>

\* C18: compatible_with_core returns true, without raising, whenever the
\* package has no data, the host version cannot be obtained, or the range
\* is (null, null, null), whatever the host version is
C18_FailOpen ==
  (last.op = "compatible_with_core" /\ Unavailable(last.snapshot))
    => (last.err = "none" /\ last.value = TRUE)

\* the same for the calls made once the registry the package's type is
\* looked up in exists
C18_FailOpen_Registry ==
  (/\ last.op = "compatible_with_core"
   /\ Unavailable(last.snapshot)
   /\ game.has_game
   /\ (args.type = TYPE_MODULE => game.has_modules)
   /\ (args.type \in {TYPE_SYSTEM, TYPE_WORLD} => game.has_data))
    => (last.err = "none" /\ last.value = TRUE)

C18_Witness_Registry ==
  /\ last.op = "compatible_with_core"
  /\ HostHolds
  /\ HostVersion # NoVersion
  /\ HeldRange(last.snapshot) = <<NoVersion, NoVersion, NoVersion>>
  /\ last.value = TRUE

\* version a is older than version b: the first number that differs is
\* smaller in a, or b continues a
Older(a, b) ==
  \E i \in 1..Len(b) :
    /\ \A j \in 1..(i - 1) : j <= Len(a) /\ a[j] = b[j]
    /\ (i > Len(a) \/ a[i] < b[i])

\* the host version and the range of the package are available
RangeAvailable ==
  /\ last.op = "compatible_with_core"
  /\ last.err = "none"
  /\ HostHolds
  /\ HostVersion # NoVersion

\* the host version is not older than the minimum, if one is given
NotBelowMinimum(min) == min = NoVersion \/ ~Older(HostVersion, min)

\* the host version is strictly older than the maximum, if one is given
BelowMaximum(max) == max = NoVersion \/ Older(HostVersion, max)

\* the host version, cut to its first number when the verified version is
\* a single number, is not newer than the verified version, if one is given
NotAboveVerified(verif) ==
  \/ verif = NoVersion
  \/ ~Older(verif, IF Len(verif) >= 2 THEN HostVersion ELSE <<HostVersion[1]>>)

\* C19 as stated: compatible exactly when the host version is not older
\* than the minimum and strictly older than the maximum
C19_Range_AsStated ==
  RangeAvailable =>
    (last.value = (/\ NotBelowMinimum(HeldRange(last.snapshot)[1])
                   /\ BelowMaximum(HeldRange(last.snapshot)[3])))

\* C19: when the host version and the package's (minimum, verified,
\* maximum) range are available, compatible_with_core returns true exactly
\* when the host version is not older than minimum (if given), is not newer
\* than verified (if given) and is strictly older than maximum (if given)
C19_Range ==
  RangeAvailable =>
    (last.value = (/\ NotBelowMinimum(HeldRange(last.snapshot)[1])
                   /\ NotAboveVerified(HeldRange(last.snapshot)[2])
                   /\ BelowMaximum(HeldRange(last.snapshot)[3])))

\* a host at the minimum is compatible and a host at the maximum is not
C19_Witness ==
  /\ RangeAvailable
  /\ last.snapshot = "new"
  /\ HeldRange("new")[1] = HostVersion
  /\ HeldRange("new")[2] = NoVersion
  /\ HeldRange("new")[3] = NoVersion
  /\ last.value = TRUE

C19_Witness_Maximum ==
  /\ RangeAvailable
  /\ last.snapshot = "new"
  /\ HeldRange("new")[3] = HostVersion
  /\ last.value = FALSE

(***************************************************************************)
(* Properties of the library version, checked under SpecVersion            *)
(***************************************************************************)
\* the fallback 1.99.99.99 with unknown revision and known = false
Fallback ==
  [known |-> FALSE, full |-> <<"1", ".", "9", "9", ".", "9", "9", ".", "9", "9">>,
   major |-> 1, minor |-> 99, patch |-> 99, suffix |-> 99, meta |-> <<>>,
   git |-> <<"u", "n", "k", "n", "o", "w", "n">>,
   git_short |-> <<"u", "n", "k", "n", "o", "w", "n">>,
   full_git |-> <<"1", ".", "9", "9", ".", "9", "9", ".", "9", "9", " ", "(",
                  "u", "n", "k", "n", "o", "w", "n", ")">>]

\* a step changes a version field only if all fields hold the fallback,
\* and not after a successful parse
OverwritesOnce ==
  (last'.version # last.version) => (last.version = Fallback /\ ~last.version.known)

\* C20: the library version starts at the fallback 1.99.99.99 with unknown
\* revision and known = false; over any sequence of parse_manifest_version
\* calls it is overwritten at most once, and after the first successful
\* parse no later call changes any version field, even if the host
\* manifest has changed
C20_Version == (last.version = Fallback) /\ [][OverwritesOnce]_vars

\* the version starts at the fallback
C20_Version_Start == (last.op = "init") => (last.version = Fallback)

\* after a successful parse no later call changes any version field
C20_Version_Known == [][last.version.known => last'.version = last.version]_vars

\* a parse succeeded and the manifest of the host changed after it
C20_Witness_Known ==
  /\ last.op = "parse_manifest_version"
  /\ last.version.known
  /\ HasManifest(game)
  /\ game.version.t = "string"
  /\ game.version.s # last.version.full
  /\ VersionMatch(game.version.s).ok

\* a call of parse_manifest_version that fails on host g: the module
\* registry is missing or empty, the manifest is missing, or the version
\* string is missing or does not match the pattern
FailingCall(g) ==
  \/ ~g.has_game \/ ~g.has_modules \/ g.size = 0 \/ g.entry # "data"
  \/ g.version.t = "undefined"
  \/ g.version.t = "string" /\ ~VersionMatch(g.version.s).ok

\* a step that is a call of parse_manifest_version
IsParseStep == last'.op = "parse_manifest_version" /\ game' = game

\* C21: a parse_manifest_version call that fails leaves every version
\* field, the revision hash, its short form and the combined display
\* string included, at the value it had before the call, with known still
\* false
C21_FailedParse ==
  [][(IsParseStep /\ FailingCall(game) /\ ~last.version.known)
       => (last'.version = last.version /\ ~last'.version.known)]_vars

\* the same for the calls of the newer snapshot
C21_FailedParse_New ==
  [][(IsParseStep /\ FailingCall(game) /\ ~last.version.known /\ last.snapshot = "new")
       => (last'.version = last.version /\ ~last'.version.known)]_vars

\* a call failed on a manifest that has a revision hash but no version
C21_Witness_New ==
  /\ last.op = "parse_manifest_version"
  /\ last.snapshot = "new"
  /\ HasManifest(game)
  /\ game.git_version.t = "string"
  /\ game.version.t = "undefined"
  /\ ~last.version.known

\* the number a string of decimal digits writes
RECURSIVE Decimal(_)
Decimal(ds) ==
  IF ds = <<>> THEN 0
  ELSE 10 * Decimal(SubSeq(ds, 1, Len(ds) - 1)) +
       (CHOOSE d \in 0..9 : Digits[d + 1] = ds[Len(ds)])

\* the dot-separated parts of the version string of the host's manifest
VersionParts4 == Split(game.version.s, ".")

\* the manifest of the host has a version string MAJOR.MINOR.PATCH.SUFFIX
FourNumbers ==
  /\ game.has_game /\ game.has_modules /\ game.size > 0 /\ game.entry = "data"
  /\ game.version.t = "string"
  /\ Len(VersionParts4) = 4
  /\ \A i \in 1..4 :
       /\ VersionParts4[i] # <<>>
       /\ \A k \in DOMAIN VersionParts4[i] : VersionParts4[i][k] \in DigitSet

\* the short revision of the host's manifest: the first 7 characters of a
\* hash of at least 40 characters, the whole hash otherwise, 'unknown'
\* when no hash is given
ShortRevision ==
  IF game.git_version.t # "string" THEN <<"u", "n", "k", "n", "o", "w", "n">>
  ELSE IF Len(game.git_version.s) >= 40
  THEN [i \in 1..7 |-> game.git_version.s[i]]
  ELSE game.git_version.s

\* C22: parsing a version string MAJOR.MINOR.PATCH.SUFFIX yields those
\* four numbers as major, minor, patch and suffix, and the short revision
\* is the first 7 characters of the revision hash when the hash has at
\* least 40 characters and the whole hash otherwise ('unknown' when no
\* hash is given)
C22_Parse ==
  [][(IsParseStep /\ ~last.version.known /\ FourNumbers)
       => (/\ last'.version.known
           /\ last'.version.major = Decimal(VersionParts4[1])
           /\ last'.version.minor = Decimal(VersionParts4[2])
           /\ last'.version.patch = Decimal(VersionParts4[3])
           /\ last'.version.suffix = Decimal(VersionParts4[4])
           /\ last'.version.git_short = ShortRevision)]_vars

\* '10.291.2.0' with a 40-character hash was parsed
C22_Witness ==
  /\ last.op = "parse_manifest_version"
  /\ FourNumbers
  /\ last.version.known
  /\ last.version.full = game.version.s
  /\ last.version.major = 10 /\ last.version.minor = 291
  /\ last.version.patch = 2 /\ last.version.suffix = 0
  /\ game.git_version.t = "string"
  /\ Len(game.git_version.s) = 40
  /\ last.version.git = game.git_version.s
  /\ Len(last.version.git_short) = 7

(***************************************************************************)
(* Properties of version_at_least, checked under SpecAtLeast               *)
(***************************************************************************)
\* the tuple the call asks for, omitted arguments counted as 0
Asked ==
  <<args.major.n,
    IF args.minor.t = "undefined" THEN 0 ELSE args.minor.n,
    IF args.patch.t = "undefined" THEN 0 ELSE args.patch.n,
    IF args.suffix.t = "undefined" THEN 0 ELSE args.suffix.n>>

Current ==
  <<last.version.major, last.version.minor, last.version.patch, last.version.suffix>>

\* tuple a is greater than or equal to tuple b in lexicographic order
LexAtLeast(a, b) ==
  \/ a = b
  \/ \E i \in 1..4 : a[i] > b[i] /\ \A j \in 1..(i - 1) : a[j] = b[j]

\* C23: version_at_least(major, minor, patch, suffix) returns true exactly
\* when the current version is greater than or equal to the given tuple in
\* lexicographic order, with omitted arguments counted as 0
C23_AtLeast ==
  (last.op = "version_at_least") => (last.value = LexAtLeast(Current, Asked))

\* the same for the calls in which the current suffix is not greater than
\* the one asked for, or an earlier field differs
C23_AtLeast_Suffix ==
  (/\ last.op = "version_at_least"
   /\ ~(/\ Current[1] = Asked[1] /\ Current[2] = Asked[2] /\ Current[3] = Asked[3]
        /\ Current[4] > Asked[4]))
    => (last.value = LexAtLeast(Current, Asked))

C23_Witness_Suffix ==
  /\ last.op = "version_at_least"
  /\ args.patch.t = "undefined"
  /\ Current[2] > 0
  /\ Current[1] = Asked[1] /\ Current[2] = Asked[2] /\ Current[3] > 0
  /\ last.value = TRUE

(***************************************************************************)
(* Properties of the i18n polyfill, checked under SpecI18n                 *)
(***************************************************************************)
\* the texts the English JSON defines
EnglishText ==
  (KeyA :> JsStr(<<"E", "N", " ", "a">>)) @@ (KeyB :> JsStr(<<"E", "N", " ", "b">>)) @@
  (KeyPC :> JsStr(<<"E", "N", " ", "c">>))

\* another language that was loaded has a text for the key
Translated(key) ==
  /\ key = KeyA
  /\ last.inited
  /\ "fr" \in game.files
  /\ game.client_lang = "fr"
  /\ (last.snapshot = "old" => last.pending = <<>>)

\* C24: while the host's own i18n is not available, in every state before
\* on_ready, before i18n.init() has been called included, a key that the
\* English JSON defines is not returned as the raw key, and it is returned
\* as its English text when no other language was loaded that has it
C24_English ==
  (/\ last.op = "i18n.localize"
   /\ ~game.i18n
   /\ ~last.ready
   /\ last.key \in DOMAIN EnglishText)
    => (/\ last.result # JsStr(last.key)
        /\ (~Translated(last.key) => last.result = EnglishText[last.key]))

\* the same for the calls made once i18n.init() has been called
C24_English_Inited ==
  (/\ last.op = "i18n.localize"
   /\ last.inited
   /\ ~game.i18n
   /\ ~last.ready
   /\ last.key \in DOMAIN EnglishText)
    => (/\ last.result # JsStr(last.key)
        /\ (~Translated(last.key) => last.result = EnglishText[last.key]))

\* a language was asked for and could not be loaded, and the English text
\* was returned
C24_Witness_Inited ==
  /\ last.op = "i18n.localize"
  /\ last.inited
  /\ ~game.i18n
  /\ game.client_lang = "de"
  /\ last.key = KeyPC
  /\ last.result = EnglishText[KeyPC]

(***************************************************************************)
(* Properties of the logging aliases, checked under SpecLog                *)
(***************************************************************************)
\* the value of the level of each alias
LevelValue ==
  [never |-> 0, trace |-> 100, debug |-> 200, info |-> 300, warning |-> 400, warn |-> 400,
   error |-> 500, critical |-> CriticalValue, always |-> AlwaysValue]

\* the value of the current verbosity, WARNING while none has been set
CurrentValue ==
  IF last.current.t = "null" THEN 400
  ELSE IF last.current.t = "number" THEN last.current.n
  ELSE last.current.val.n

\* C25: after any sequence of assignments to Log.verbosity and Log.init
\* calls, for every alias the $-suffixed function is non-null exactly when
\* Log.enabled(level) holds, the plain function is a no-op exactly when it
\* does not, and Log.enabled(level) holds exactly when the level's value is
\* >= the current verbosity value (WARNING while no verbosity has been set)
C25_Aliases ==
  \A alias \in DOMAIN LevelValue :
    /\ enabled(enum, last.current, enum.props[LOG_ALIASES_VERBOSITY_MAP[alias]])
         <=> (LevelValue[alias] >= CurrentValue)
    /\ (last.aliases[alias].dollar.t = "function") <=> (LevelValue[alias] >= CurrentValue)
    /\ (last.aliases[alias].dollar.t = "null") <=> (LevelValue[alias] < CurrentValue)
    /\ (last.aliases[alias].plain = NoOp) <=> (LevelValue[alias] < CurrentValue)

\* the verbosity was lowered to an integer between two levels after it had
\* been set, and then an assignment of a value that is no verbosity failed
C25_Witness ==
  /\ last.op = "set verbosity"
  /\ last.err = "internal"
  /\ last.current = JsNum(250)
  /\ last.aliases["debug"].dollar = JsNull
  /\ last.aliases["info"].dollar.t = "function"

(***************************************************************************)
(* Properties of failed EnumValue calls, checked under Spec                *)
(***************************************************************************)
\* C26: an EnumValue call that fails for any reason (enumeration frozen,
\* name not upper-case, duplicate name, duplicate value) leaves the
\* enumeration exactly as it was: the name mapping, the member list and
\* the reverse map hold the same members after the failed call as before
C26_FailedCall ==
  [][(last'.op = "EnumValue" /\ last'.err # "none") => enum' = enum]_vars

\* the same for the calls that fail before the name is stored
C26_FailedCall_Early ==
  [][(last'.op = "EnumValue" /\ last'.err \in {"frozen", "uppercase", "dupname"})
       => enum' = enum]_vars

\* a call failed on a name the enumeration already has
C26_Witness_Early ==
  /\ last.op = "EnumValue"
  /\ last.err = "dupname"
  /\ ~enum.frozen
  /\ last.name \in DOMAIN enum.props

(***************************************************************************)
(* Properties of scans that must not raise, checked under SpecPkg          *)
(***************************************************************************)
\* C27: for every non-empty string passed as stack_trace, whatever letter
\* case its path segments use for worlds/systems/modules and whatever
\* characters its identifier segments contain, collect_all completes and
\* returns a list
C27_NeverRaises ==
  (last.op = "collect_all" /\ last.snapshot = "new" /\ args.stack_trace # <<>>)
    => (last.status = "return" /\ last.err = "none")

\* the same for the traces whose root directories are in lower case and
\* whose identifier segments are identifiers
C27_NeverRaises_Plain ==
  (/\ last.op = "collect_all"
   /\ last.snapshot = "new"
   /\ args.stack_trace # <<>>
   /\ \A i \in DOMAIN args.stack_trace :
        args.stack_trace[i] \notin {LineUpperCase, LineBadId})
    => (last.status = "return" /\ last.err = "none")

C27_Witness_Plain ==
  /\ last.op = "collect_all"
  /\ last.snapshot = "new"
  /\ Len(args.stack_trace) = 2
  /\ args.stack_trace[1] = LineWorldB
  /\ args.stack_trace[2] = LineModuleAB
  /\ last.status = "return"

(***************************************************************************)
(* Properties of the key tests, checked under SpecKey                      *)
(***************************************************************************)
\* the text before the only separator of key k, or <<>> when k does not
\* split into two pieces
PrefixOf(k) == IF Len(Split(k, KEY_SEPARATOR)) = 2 THEN Split(k, KEY_SEPARATOR)[1] ELSE <<>>

\* k splits on ':' into the name of a package type and a valid identifier
TypeNames == {<<"u","n","k","n","o","w","n">>, <<"m","o","d","u","l","e">>,
              <<"s","y","s","t","e","m">>, <<"w","o","r","l","d">>}

SplitsIntoKey(k) ==
  /\ Len(Split(k, KEY_SEPARATOR)) = 2
  /\ toLowerCase(Split(k, KEY_SEPARATOR)[1]) \in TypeNames
  /\ Split(k, KEY_SEPARATOR)[2] # <<>>
  /\ \A i \in DOMAIN Split(k, KEY_SEPARATOR)[2] :
       IsIdChar(Split(k, KEY_SEPARATOR)[2][i])

IsKeyTest == last.op \in {"is_valid_key", "is_valid_key_or_id"}

\* C28: is_valid_key and is_valid_key_or_id return a boolean for every
\* input and never raise, and is_valid_key(k) is true exactly when k is a
\* string that splits on ':' into a package type name and a valid
\* identifier (so 'x:y' with x no type name gives false)
C28_Keys ==
  IsKeyTest =>
    /\ last.status = "return"
    /\ last.ret \in BOOLEAN
    /\ last.op = "is_valid_key" =>
         (last.ret <=> (last.key.t = "string" /\ SplitsIntoKey(last.key.s)))

\* C28 for the inputs that are no strings, that do not split into two
\* pieces, or whose prefix is the name of a package type: the call returns,
\* and is_valid_key gives true exactly for a type name with a valid
\* identifier
C28_Keys_Named ==
  (/\ IsKeyTest
   /\ \/ last.key.t # "string"
      \/ Len(Split(last.key.s, KEY_SEPARATOR)) # 2
      \/ toLowerCase(PrefixOf(last.key.s)) \in TypeNames)
    => /\ last.status = "return"
       /\ last.ret \in BOOLEAN
       /\ last.op = "is_valid_key" =>
            (last.ret <=> (last.key.t = "string" /\ SplitsIntoKey(last.key.s)))

\* is_valid_key has returned true for 'module:ab'
C28_Witness_Named ==
  /\ last.op = "is_valid_key"
  /\ last.key = JsStr(<<"m","o","d","u","l","e",":","a","b">>)
  /\ last.status = "return"
  /\ last.ret = TRUE

====
